---- MODULE Spec2Model ----
(***************************************************************************)
(* Conversation-turn extraction hooks: the full handler                    *)
(* (src/hook/handler.js), the optimized handler (src/unnamed/part_000) and *)
(* the incremental handler                                                 *)
(* (src/cli/openhive/hooks/conversation-extractor/handler.js).             *)
(*                                                                         *)
(* Representation.  Text that the code concatenates, joins or slices is a  *)
(* sequence of one-character strings.  Atomic tokens (ids, names, roles)   *)
(* are strings, with Null for null/undefined.  A nullable structured value *)
(* is a sequence of length at most one (<<>> is null).  A JavaScript       *)
(* object with optional numeric keys is a function whose DOMAIN is the set *)
(* of keys present.                                                        *)
(***************************************************************************)
EXTENDS Integers, Sequences, FiniteSets, TLC

VARIABLES
    \* one pass of extractTurns, entry by entry
    variant,            \* which handler's extractTurns runs: full, optimized, incremental
    entries,            \* the journal entries consumed so far, in order
    turns,              \* const turns = []
    current,            \* let current = null      (<<>> or <<open turn>>)
    pendingToolCalls,   \* const pendingToolCalls = {}   id -> tool-call object
    calls,              \* the tool-call objects created so far (the heap)
    pass,               \* idle, running, done, threw
    result,             \* the list extractTurns returned
    \* usage merge
    usageA, usageB, accAB, accBA, merged,
    \* truncate
    str, budget, truncated, truncDone,
    \* incremental handler, sequential runs
    journalFile,        \* ~/.openclaw/agents/main/sessions/s1.jsonl, one line per element
    logFile,            \* conversation-extractor.jsonl, one line per element
    lastEvent,          \* event of the latest run, NoEvent once the journal has grown since
    lastAppended,       \* lines the latest run appended
    repeated,           \* the latest run repeated the run before it: same event, same journal
    \* incremental handler, overlapping invocations
    inv,                \* per invocation: pc, event, entries read, scan result, turns left to append
    \* runs of the four handlers, one after another
    convLog,            \* conversation-extractor.log, one appended block per element
    verboseLog,         \* conversation-extractor-verbose.log, one appended block per element
    verbose,            \* OPENCLAW_EXTRACTOR_VERBOSE === "1"
    runs,               \* handler runs so far
    lastRun,            \* the latest run: handler, journal missing, entries read, appended, threw
    started,            \* session ids of the agent:bootstrap events given to session-start
    \* getLastWrittenTurnIndex on a drawn output file
    scanId, scanResult,
    \* one handler run on each of two events
    eventA, eventB, niHandler, outA, outB

turnVars    == <<variant, entries, turns, current, pendingToolCalls, calls, pass, result>>
usageVars   == <<usageA, usageB, accAB, accBA, merged>>
truncVars   == <<str, budget, truncated, truncDone>>
fileVars    == <<journalFile, logFile>>
histVars    == <<lastEvent, lastAppended, repeated>>
hookVars    == <<convLog, verboseLog, verbose, runs, lastRun, started>>
scanVars    == <<scanId, scanResult>>
pairVars    == <<eventA, eventB, niHandler, outA, outB>>
otherVars   == <<hookVars, scanVars, pairVars>>
vars        == <<turnVars, usageVars, truncVars, fileVars, histVars, inv, otherVars>>

Null == "null"

(***************************************************************************)
(* Bounds of the model.                                                    *)
(***************************************************************************)
MaxEntries     == 4     \* entries of one extractTurns pass
MaxCallEntries == 1     \* tool-call messages after the user message of a drawn-block pass
MaxUsageFields == 2     \* usage keys present in the two merged records together
MaxVal         == 2     \* largest token or cost value of a drawn usage record
MaxStrLen      == 4     \* longest string over two letters handed to truncate
MaxLongLen     == 12    \* longest one-letter string handed to truncate
MaxBudget      == 3     \* largest truncate budget
MaxJournal     == 3     \* lines of the journal file
MaxGrown       == 4     \* lines of the journal file with tool calls
MaxLog         == 3     \* lines of the output file
MaxRuns        == 2     \* handler runs in a row
MaxScanLines   == 3     \* lines of an output file handed to getLastWrittenTurnIndex
MaxScanIndex   == 1     \* largest turn index on a drawn output line

(***************************************************************************)
(* Sequence helpers.                                                       *)
(***************************************************************************)
\* Array.prototype.join(sep)
RECURSIVE Join(_, _)
Join(ss, sep) ==
    IF ss = <<>> THEN <<>>
    ELSE IF Len(ss) = 1 THEN Head(ss)
    ELSE Head(ss) \o sep \o Join(Tail(ss), sep)

(***************************************************************************)
(* Usage records.  tok holds the top-level numeric keys present, cost is   *)
(* the nested cost object (<<>> when the record has no cost key).          *)
(***************************************************************************)
TokFields  == {"input", "output", "cacheRead", "cacheWrite", "totalTokens"}
CostFields == {"input", "output", "cacheRead", "cacheWrite", "total"}

EmptyFn == [k \in {} |-> 0]

\* acc.k ?? 0
Get(f, k) == IF k \in DOMAIN f THEN f[k] ELSE 0

\* acc.cost?.k ?? 0
GetCost(u, k) == IF u.cost = <<>> THEN 0 ELSE Get(u.cost[1], k)

\* usage: {}
EmptyUsage == [tok |-> EmptyFn, cost |-> <<>>]

\* Object.keys(usage).length
KeyCount(u) == Cardinality(DOMAIN u.tok) + Len(u.cost)

\* A plausible slip: the incoming value wins where present instead of being added.
addUsageLastWins(acc, usage) ==
    IF usage = <<>> THEN acc
    ELSE [tok  |-> [k \in TokFields |->
                      IF k \in DOMAIN usage[1].tok THEN usage[1].tok[k] ELSE Get(acc.tok, k)],
          cost |-> <<[k \in CostFields |->
                      IF usage[1].cost # <<>> /\ k \in DOMAIN usage[1].cost[1]
                      THEN usage[1].cost[1][k] ELSE GetCost(acc, k)]>>]

\* addUsage(acc, usage); usage is <<>> (falsy) or <<record>>
addUsage(acc, usage) ==
    IF usage = <<>> THEN acc
    ELSE [tok  |-> [k \in TokFields  |-> Get(acc.tok, k) + Get(usage[1].tok, k)],
          cost |-> <<[k \in CostFields |-> GetCost(acc, k) + GetCost(usage[1], k)]>>]

(***************************************************************************)
(* Content values and blocks.                                              *)
(***************************************************************************)
\* content kinds: absent (null, undefined or ""), string, blocks, other
NoContent      == [kind |-> "absent", str |-> <<>>, blocks |-> <<>>]
StrContent(s)  == [kind |-> IF s = <<>> THEN "absent" ELSE "string", str |-> s, blocks |-> <<>>]
Blocks(bs)     == [kind |-> "blocks", str |-> <<>>, blocks |-> bs]

\* a content block; text and thinking are <<>> when absent or empty
Block(t) == [type |-> t, text |-> <<>>, thinking |-> <<>>, id |-> Null,
             name |-> Null, toolName |-> Null,
             arguments |-> Null, input |-> Null, parameters |-> Null]
TextBlock(s)       == [Block("text") EXCEPT !.text = s]
ThinkingBlock(s)   == [Block("thinking") EXCEPT !.thinking = s]
ToolCallBlock(i, n) == [Block("toolCall") EXCEPT !.id = i, !.name = n, !.arguments = "args"]

\* b?.type === "text"
IsTextBlock(b) == b.type = "text"

\* .map((b) => b.text || "").join("")
RECURSIVE JoinTexts(_)
JoinTexts(bs) == IF bs = <<>> THEN <<>> ELSE Head(bs).text \o JoinTexts(Tail(bs))

\* extractTextFromContent(content)
extractTextFromContent(content) ==
    IF content.kind = "absent" THEN <<>>
    ELSE IF content.kind = "string" THEN content.str
    ELSE IF content.kind = "blocks"
         THEN JoinTexts(SelectSeq(content.blocks, IsTextBlock))
    ELSE <<>>

(***************************************************************************)
(* Journal entries: the parsed value of one journal line.                  *)
(*   type "null" is the JSON value null (not an object);                   *)
(*   message is whether entry.message is truthy;                           *)
(*   content, usage, model, stopReason, toolCallId, toolUseId and isError  *)
(*   are the keys of entry.message, entryContent is a content key of the   *)
(*   entry itself, beside message.                                         *)
(***************************************************************************)
Entry(t) == [type |-> t, message |-> FALSE, role |-> Null, content |-> NoContent,
             timestamp |-> Null, usage |-> <<>>, model |-> Null, stopReason |-> Null,
             toolCallId |-> Null, toolUseId |-> Null, isError |-> <<>>,
             id |-> Null, cwd |-> Null, entryContent |-> NoContent]
Message(r, c)        == [Entry("message") EXCEPT !.message = TRUE, !.role = r, !.content = c]
UserMsg(s, ts)       == [Message("user", StrContent(s)) EXCEPT !.timestamp = ts]
AsstMsg(bs, u)       == [Message("assistant", Blocks(bs)) EXCEPT !.usage = u]
ToolResultMsg(i, s, e) == [Message("toolResult", Blocks(<<TextBlock(s)>>))
                             EXCEPT !.toolCallId = i, !.isError = e]
SessionHeader(i, c)  == [Entry("session") EXCEPT !.id = i, !.cwd = c]
NullEntry            == Entry("null")

\* entry.type !== "message" || !entry.message
IsMessageEntry(e) == e.type = "message" /\ e.message

(***************************************************************************)
(* extractTurns.  The loop body is StepEntry; the builder state b is       *)
(*   turns, current, pending (pendingToolCalls), calls, threw.             *)
(* A tool-call object lives in calls; a turn's toolCalls and the pending   *)
(* table hold its position there, so that finalizeTurn's shallow copy and  *)
(* the table alias the same object, as in the code.                        *)
(***************************************************************************)
Variants == {"full", "optimized", "incremental"}

Truthy(s) == s # Null /\ s # ""

\* a ?? b
Coalesce(a, b) == IF a # Null THEN a ELSE b

NoPending == [k \in {} |-> 0]

BuilderInit == [turns |-> <<>>, current |-> <<>>, pending |-> NoPending,
                calls |-> <<>>, threw |-> FALSE]

\* A slip: turn indices are counted from one.
OpenTurnOneBased(b, e) ==
    [index |-> Len(b.turns) + 1, timestamp |-> e.timestamp,
     userMessage |-> extractTextFromContent(e.content),
     thinking |-> <<>>, toolCalls |-> <<>>, response |-> <<>>,
     model |-> Null, stopReason |-> Null, usage |-> EmptyUsage]

\* current = { index: turns.length, timestamp, userMessage, thinking: [], ... }
OpenTurn(b, e) ==
    [index |-> Len(b.turns), timestamp |-> e.timestamp,
     userMessage |-> extractTextFromContent(e.content),
     thinking |-> <<>>, toolCalls |-> <<>>, response |-> <<>>,
     model |-> Null, stopReason |-> Null, usage |-> EmptyUsage]

\* A slip: the thinking texts are joined with a single line break.
finalizeTurnOneBreak(v, turn) ==
    [turn EXCEPT !.thinking = Join(turn.thinking, <<"\n">>),
                 !.usage = IF v # "optimized" /\ KeyCount(turn.usage) # 0
                           THEN <<turn.usage>> ELSE <<>>]

\* finalizeTurn(turn); turn.usage becomes <<>> (null) or <<record>>.
\* The optimized handler's turns carry no usage, model or stopReason.
finalizeTurn(v, turn) ==
    [turn EXCEPT !.thinking = Join(turn.thinking, <<"\n", "\n">>),
                 !.usage = IF v # "optimized" /\ KeyCount(turn.usage) # 0
                           THEN <<turn.usage>> ELSE <<>>]

\* A slip: the key input is looked at before the key arguments.
NewToolCallInputFirst(block) ==
    [id |-> block.id,
     name |-> Coalesce(block.name, Coalesce(block.toolName, "unknown")),
     input |-> Coalesce(block.input, Coalesce(block.arguments, Coalesce(block.parameters, "{}"))),
     result |-> <<>>, isError |-> <<>>]

\* const tc = { id, name, input, result: null, isError: null }
NewToolCall(block) ==
    [id |-> block.id,
     name |-> Coalesce(block.name, Coalesce(block.toolName, "unknown")),
     input |-> Coalesce(block.arguments, Coalesce(block.input, Coalesce(block.parameters, "{}"))),
     result |-> <<>>, isError |-> <<>>]

\* A slip: an id that is already pending keeps its first tool call.
RegisterKeepsFirst(pending, id, idx) ==
    [k \in DOMAIN pending \cup {id} |-> IF k \in DOMAIN pending THEN pending[k] ELSE idx]

\* pendingToolCalls[id] = tc
Register(pending, id, idx) ==
    [k \in DOMAIN pending \cup {id} |-> IF k = id THEN idx ELSE pending[k]]

\* delete pendingToolCalls[id]
Unregister(pending, id) == [k \in DOMAIN pending \ {id} |-> pending[k]]

\* A slip: a text block replaces the response instead of extending it.
BlockStepLastText(b, block) ==
    LET cur == b.current[1] IN
    IF ~Truthy(block.type) THEN b
    ELSE IF block.type = "thinking"
    THEN IF block.thinking # <<>>
         THEN [b EXCEPT !.current = <<[cur EXCEPT !.thinking = Append(@, block.thinking)]>>]
         ELSE b
    ELSE IF block.type \in {"toolCall", "tool_use"}
    THEN LET tc  == NewToolCall(block)
             idx == Len(b.calls) + 1
         IN [b EXCEPT !.calls = Append(@, tc),
                      !.current = <<[cur EXCEPT !.toolCalls = Append(@, idx)]>>,
                      !.pending = IF Truthy(tc.id) THEN Register(@, tc.id, idx) ELSE @]
    ELSE IF block.type = "text"
    THEN [b EXCEPT !.current = <<[cur EXCEPT !.response = block.text]>>]
    ELSE b

\* A slip: a tool call without an id is registered too, under the key null.
BlockStepRegistersAll(b, block) ==
    LET cur == b.current[1] IN
    IF ~Truthy(block.type) THEN b
    ELSE IF block.type = "thinking"
    THEN IF block.thinking # <<>>
         THEN [b EXCEPT !.current = <<[cur EXCEPT !.thinking = Append(@, block.thinking)]>>]
         ELSE b
    ELSE IF block.type \in {"toolCall", "tool_use"}
    THEN LET tc  == NewToolCall(block)
             idx == Len(b.calls) + 1
         IN [b EXCEPT !.calls = Append(@, tc),
                      !.current = <<[cur EXCEPT !.toolCalls = Append(@, idx)]>>,
                      !.pending = Register(@, tc.id, idx)]
    ELSE IF block.type = "text"
    THEN [b EXCEPT !.current = <<[cur EXCEPT !.response = @ \o block.text]>>]
    ELSE b

\* one iteration of  for (const block of blocks)
BlockStep(b, block) ==
    LET cur == b.current[1] IN
    IF ~Truthy(block.type) THEN b
    ELSE IF block.type = "thinking"
    THEN IF block.thinking # <<>>
         THEN [b EXCEPT !.current = <<[cur EXCEPT !.thinking = Append(@, block.thinking)]>>]
         ELSE b
    ELSE IF block.type \in {"toolCall", "tool_use"}
    THEN LET tc  == NewToolCall(block)
             idx == Len(b.calls) + 1
         IN [b EXCEPT !.calls = Append(@, tc),
                      !.current = <<[cur EXCEPT !.toolCalls = Append(@, idx)]>>,
                      !.pending = IF Truthy(tc.id) THEN Register(@, tc.id, idx) ELSE @]
    ELSE IF block.type = "text"
    THEN [b EXCEPT !.current = <<[cur EXCEPT !.response = @ \o block.text]>>]
    ELSE b

RECURSIVE BlocksLoop(_, _)
BlocksLoop(b, blocks) ==
    IF blocks = <<>> THEN b ELSE BlocksLoop(BlockStep(b, Head(blocks)), Tail(blocks))

\* A slip: the pending table is emptied when a new turn opens.
UserStepResetsPending(v, b, e) ==
    LET closed == IF b.current # <<>>
                  THEN Append(b.turns, finalizeTurn(v, b.current[1])) ELSE b.turns
        b1     == [b EXCEPT !.turns = closed, !.pending = NoPending]
    IN [b1 EXCEPT !.current = <<OpenTurn(b1, e)>>]

\* role === "user"
UserStep(v, b, e) ==
    LET closed == IF b.current # <<>>
                  THEN Append(b.turns, finalizeTurn(v, b.current[1])) ELSE b.turns
        b1     == [b EXCEPT !.turns = closed]
    IN [b1 EXCEPT !.current = <<OpenTurn(b1, e)>>]

\* A slip: the first model and stopReason of a turn are kept.
AssistantStepFirstWins(v, b, e) ==
    LET cur == b.current[1]
        c1  == IF v = "optimized" THEN cur
               ELSE [cur EXCEPT !.usage = addUsage(@, e.usage),
                                !.model = IF Truthy(e.model) /\ @ = Null THEN e.model ELSE @,
                                !.stopReason = IF Truthy(e.stopReason) /\ @ = Null
                                               THEN e.stopReason ELSE @]
        blocks == IF e.content.kind = "blocks" THEN e.content.blocks ELSE <<>>
    IN BlocksLoop([b EXCEPT !.current = <<c1>>], blocks)

\* role === "assistant" && current
AssistantStep(v, b, e) ==
    LET cur == b.current[1]
        c1  == IF v = "optimized" THEN cur
               ELSE [cur EXCEPT !.usage = addUsage(@, e.usage),
                                !.model = IF Truthy(e.model) THEN e.model ELSE @,
                                !.stopReason = IF Truthy(e.stopReason) THEN e.stopReason ELSE @]
        blocks == IF e.content.kind = "blocks" THEN e.content.blocks ELSE <<>>
    IN BlocksLoop([b EXCEPT !.current = <<c1>>], blocks)

\* A slip: the result is given to the newest tool call without matching the id.
ToolResultStepUnmatched(b, e) ==
    IF b.calls # <<>>
    THEN [b EXCEPT !.calls[Len(b.calls)].result = <<extractTextFromContent(e.content)>>,
                   !.calls[Len(b.calls)].isError =
                        IF e.isError = <<>> THEN <<FALSE>> ELSE e.isError]
    ELSE b

\* A slip: a content list on the entry itself is read when the message has none.
ToolResultStepEntryContent(b, e) ==
    LET id == Coalesce(e.toolCallId, e.toolUseId)
        c  == IF e.content.kind = "absent" THEN e.entryContent ELSE e.content
    IN IF Truthy(id) /\ id \in DOMAIN b.pending
       THEN LET idx == b.pending[id] IN
            [b EXCEPT !.calls[idx].result = <<extractTextFromContent(c)>>,
                      !.calls[idx].isError = IF e.isError = <<>> THEN <<FALSE>> ELSE e.isError,
                      !.pending = Unregister(@, id)]
       ELSE b

\* A slip: the call stays pending after its result has been set.
ToolResultStepKeepsPending(b, e) ==
    LET id == Coalesce(e.toolCallId, e.toolUseId) IN
    IF Truthy(id) /\ id \in DOMAIN b.pending
    THEN LET idx == b.pending[id] IN
         [b EXCEPT !.calls[idx].result = <<extractTextFromContent(e.content)>>,
                   !.calls[idx].isError = IF e.isError = <<>> THEN <<FALSE>> ELSE e.isError]
    ELSE b

\* A slip: a result without an id is given to the newest tool call without an id.
ToolResultStepNoId(b, e) ==
    LET id    == Coalesce(e.toolCallId, e.toolUseId)
        noIds == {i \in DOMAIN b.calls : b.calls[i].id = Null}
    IN IF Truthy(id) /\ id \in DOMAIN b.pending
       THEN LET idx == b.pending[id] IN
            [b EXCEPT !.calls[idx].result = <<extractTextFromContent(e.content)>>,
                      !.calls[idx].isError = IF e.isError = <<>> THEN <<FALSE>> ELSE e.isError,
                      !.pending = Unregister(@, id)]
       ELSE IF ~Truthy(id) /\ noIds # {}
       THEN LET idx == CHOOSE i \in noIds : \A j \in noIds : j <= i IN
            [b EXCEPT !.calls[idx].result = <<extractTextFromContent(e.content)>>,
                      !.calls[idx].isError = IF e.isError = <<>> THEN <<FALSE>> ELSE e.isError]
       ELSE b

\* role === "toolResult" && current
ToolResultStep(b, e) ==
    LET id == Coalesce(e.toolCallId, e.toolUseId) IN
    IF Truthy(id) /\ id \in DOMAIN b.pending
    THEN LET idx == b.pending[id] IN
         [b EXCEPT !.calls[idx].result = <<extractTextFromContent(e.content)>>,
                   !.calls[idx].isError = IF e.isError = <<>> THEN <<FALSE>> ELSE e.isError,
                   !.pending = Unregister(@, id)]
    ELSE b

\* A slip: an assistant message that arrives before any user message opens a turn.
StepEntryOpensTurn(v, b, e) ==
    IF e.type = "null" THEN [b EXCEPT !.threw = TRUE]
    ELSE IF ~IsMessageEntry(e) THEN b
    ELSE IF e.role = "user" THEN UserStep(v, b, e)
    ELSE IF e.role = "assistant"
    THEN AssistantStep(v, IF b.current # <<>> THEN b
                          ELSE [b EXCEPT !.current = <<OpenTurn(b, Entry("message"))>>], e)
    ELSE IF e.role = "toolResult" /\ b.current # <<>> THEN ToolResultStep(b, e)
    ELSE b

\* one iteration of  for (const entry of entries)
StepEntry(v, b, e) ==
    IF e.type = "null" THEN [b EXCEPT !.threw = TRUE]      \* entry.type of null: TypeError
    ELSE IF ~IsMessageEntry(e) THEN b
    ELSE IF e.role = "user" THEN UserStep(v, b, e)
    ELSE IF e.role = "assistant" /\ b.current # <<>> THEN AssistantStep(v, b, e)
    ELSE IF e.role = "toolResult" /\ b.current # <<>> THEN ToolResultStep(b, e)
    ELSE b

\* A slip: every handler returns only the turns closed by a later user message.
ReturnedTurnsClosedOnly(v, b) == b.turns

\* A slip: every handler finalizes the open turn at the end of the journal.
ReturnedTurnsAlwaysFinal(v, b) ==
    IF b.current # <<>> THEN Append(b.turns, finalizeTurn(v, b.current[1])) ELSE b.turns

\* after the loop:  if (current) turns.push(finalizeTurn(current)); return turns;
\* the incremental handler returns turns without the open one
ReturnedTurns(v, b) ==
    IF v # "incremental" /\ b.current # <<>>
    THEN Append(b.turns, finalizeTurn(v, b.current[1]))
    ELSE b.turns

\* the returned turns with each toolCalls element read through its reference
RECURSIVE Deref(_, _)
Deref(idxs, heap) ==
    IF idxs = <<>> THEN <<>> ELSE <<heap[Head(idxs)]>> \o Deref(Tail(idxs), heap)

ResolvedTurns(ts, heap) ==
    [i \in DOMAIN ts |-> [ts[i] EXCEPT !.toolCalls = Deref(@, heap)]]

\* extractTurns(entries) as one call: <<>> stands for a thrown TypeError in threw
RECURSIVE RunLoop(_, _, _)
RunLoop(v, b, es) ==
    IF es = <<>> \/ b.threw THEN b ELSE RunLoop(v, StepEntry(v, b, Head(es)), Tail(es))

extractTurns(v, es) ==
    LET b == RunLoop(v, BuilderInit, es)
    IN [threw |-> b.threw,
        turns |-> IF b.threw THEN <<>> ELSE ResolvedTurns(ReturnedTurns(v, b), b.calls)]

(***************************************************************************)
(* Values the variables of the other parts hold while one part runs.       *)
(***************************************************************************)
NoEvent == [type |-> "none", action |-> "none", agentId |-> Null, sessionId |-> Null,
            sessionKey |-> <<>>]

TurnsIdle ==
    /\ variant = "full" /\ entries = <<>> /\ turns = <<>> /\ current = <<>>
    /\ pendingToolCalls = NoPending /\ calls = <<>> /\ pass = "idle" /\ result = <<>>

UsageIdle ==
    /\ usageA = <<>> /\ usageB = <<>> /\ accAB = EmptyUsage /\ accBA = EmptyUsage
    /\ merged = {}

TruncIdle == str = <<>> /\ budget = 0 /\ truncated = <<>> /\ truncDone = FALSE

FilesIdle == journalFile = <<>> /\ logFile = <<>>

HistIdle == lastEvent = NoEvent /\ lastAppended = 0 /\ repeated = FALSE

InvIdle == inv = <<>>

\* what the record of a run keeps of the event it handled
EventKey(event) ==
    [type |-> event.type, action |-> event.action,
     agentId |-> event.agentId, sessionId |-> event.sessionId]

NoRun ==
    [handler |-> "none", handled |-> FALSE, missing |-> FALSE, entries |-> <<>>,
     appended |-> 0, threw |-> FALSE,
     event |-> [type |-> "none", action |-> "none", agentId |-> Null, sessionId |-> Null]]

HooksIdle ==
    /\ convLog = <<>> /\ verboseLog = <<>> /\ verbose = FALSE /\ runs = 0 /\ lastRun = NoRun
    /\ started = {}

ScanIdle == scanId = Null /\ scanResult = <<>>

PairIdle ==
    /\ eventA = NoEvent /\ eventB = NoEvent /\ niHandler = "none"
    /\ outA = <<>> /\ outB = <<>>

OthersIdle == HooksIdle /\ ScanIdle /\ PairIdle

(***************************************************************************)
(* One pass of extractTurns over a journal that is drawn entry by entry.   *)
(***************************************************************************)
UsageOne == [tok |-> ("input" :> 1) @@ ("output" :> 2), cost |-> <<>>]
UsageTwo == [tok |-> ("input" :> 2) @@ ("totalTokens" :> 3), cost |-> <<("total" :> 1)>>]

UserHi    == UserMsg(<<"h", "i">>, "ts1")
AsstText  == AsstMsg(<<TextBlock(<<"o", "k">>)>>, <<>>)
AsstCall  == AsstMsg(<<ThinkingBlock(<<"t">>), ToolCallBlock("t1", "read")>>, <<UsageOne>>)
AsstUse   == AsstMsg(<<[ToolCallBlock("t2", Null) EXCEPT !.type = "tool_use"],
                       TextBlock(<<"x">>)>>, <<UsageTwo>>)
ResultT1  == ToolResultMsg("t1", <<"r">>, <<FALSE>>)
ResultT2  == [ToolResultMsg(Null, <<"e">>, <<TRUE>>) EXCEPT !.toolUseId = "t2"]
Header    == SessionHeader("s1", "/w")

PassEntries == {UserHi, AsstText, AsstCall, AsstUse, ResultT1, ResultT2, Header, NullEntry}

Builder == [turns |-> turns, current |-> current, pending |-> pendingToolCalls,
            calls |-> calls, threw |-> pass = "threw"]

TurnsInit ==
    /\ variant \in Variants
    /\ entries = <<>>
    /\ turns = BuilderInit.turns
    /\ current = BuilderInit.current
    /\ pendingToolCalls = BuilderInit.pending
    /\ calls = BuilderInit.calls
    /\ pass = "running"
    /\ result = <<>>
    /\ UsageIdle /\ TruncIdle /\ FilesIdle /\ HistIdle /\ InvIdle /\ OthersIdle

\* the loop takes the next entry of the journal
ProcessEntry(e) ==
    /\ pass = "running"
    /\ Len(entries) < MaxEntries
    /\ LET b == StepEntry(variant, Builder, e) IN
        /\ turns' = b.turns
        /\ current' = b.current
        /\ pendingToolCalls' = b.pending
        /\ calls' = b.calls
        /\ pass' = IF b.threw THEN "threw" ELSE "running"
    /\ entries' = Append(entries, e)
    /\ UNCHANGED <<variant, result, usageVars, truncVars, fileVars, histVars, inv, otherVars>>

\* the journal ends and extractTurns returns
ReturnTurns ==
    /\ pass = "running"
    /\ result' = ResolvedTurns(ReturnedTurns(variant, Builder), calls)
    /\ pass' = "done"
    /\ UNCHANGED <<variant, entries, turns, current, pendingToolCalls, calls,
                   usageVars, truncVars, fileVars, histVars, inv, otherVars>>

TurnsNext == (\E e \in PassEntries : ProcessEntry(e)) \/ ReturnTurns

SpecTurns == TurnsInit /\ [][TurnsNext]_vars

(***************************************************************************)
(* The same pass over journals made of the entries of the worked examples: *)
(* a user message "hi" and an assistant reply "hello" without timestamp,   *)
(* usage or model, an assistant message calling tool "read" as t1, and the *)
(* tool result "ok" for t1 with its content list inside message            *)
(* (CaseResult) or on the entry beside message (CaseResultOuter).          *)
(***************************************************************************)
CaseUser  == UserMsg(<<"h", "i">>, Null)
CaseAsst  == AsstMsg(<<TextBlock(<<"h", "e", "l", "l", "o">>)>>, <<>>)
CaseCall  == AsstMsg(<<[ToolCallBlock("t1", "read") EXCEPT !.arguments = "{path:/a}"]>>, <<>>)
CaseResult      == ToolResultMsg("t1", <<"o", "k">>, <<FALSE>>)
CaseResultOuter == [Message("toolResult", NoContent)
                      EXCEPT !.toolCallId = "t1", !.isError = <<FALSE>>,
                             !.entryContent = Blocks(<<TextBlock(<<"o", "k">>)>>)]

CaseEntries == {CaseUser, CaseAsst, CaseCall, CaseResult, CaseResultOuter}

CasesNext == (\E e \in CaseEntries : ProcessEntry(e)) \/ ReturnTurns

SpecCases == TurnsInit /\ [][CasesNext]_vars

(***************************************************************************)
(* The same pass over journals that exercise the block loop: assistant     *)
(* messages with thinking, text and tool-call blocks, some of them empty,  *)
(* a tool call without an id, model and stopReason present, absent and     *)
(* empty, and tool results with and without an id.                         *)
(***************************************************************************)
AsstNoId ==
    [AsstMsg(<<ThinkingBlock(<<"a">>), ToolCallBlock(Null, "read"), TextBlock(<<"x">>)>>, <<>>)
        EXCEPT !.model = "m1"]
AsstEmpty ==
    [AsstMsg(<<ThinkingBlock(<<>>), TextBlock(<<"y">>), ThinkingBlock(<<"b">>),
               TextBlock(<<>>)>>, <<>>)
        EXCEPT !.model = "", !.stopReason = ""]
AsstT1 ==
    [AsstMsg(<<ToolCallBlock("t1", "exec"), TextBlock(<<"z">>)>>, <<>>)
        EXCEPT !.model = "m2", !.stopReason = "stop"]
ResultNoId == ToolResultMsg(Null, <<"n">>, <<TRUE>>)

BlockEntries == {UserHi, AsstNoId, AsstEmpty, AsstT1, AsstText, ResultNoId, ResultT1}

BlocksNext == (\E e \in BlockEntries : ProcessEntry(e)) \/ ReturnTurns

SpecBlocks == TurnsInit /\ [][BlocksNext]_vars

(***************************************************************************)
(* The same pass over a user message followed by assistant messages of one *)
(* tool-call block each, the block drawn with every combination of the     *)
(* keys name, toolName, arguments, input and parameters present or absent; *)
(* a name or arguments of "" is a present value that is falsy.             *)
(***************************************************************************)
CallBlocks ==
    {[Block(t) EXCEPT !.id = "t1", !.name = n, !.toolName = tn,
                      !.arguments = a, !.input = i, !.parameters = p] :
        t \in {"toolCall", "tool_use"}, n \in {Null, "", "read"}, tn \in {Null, "exec"},
        a \in {Null, "", "{a:1}"}, i \in {Null, "{i:1}"}, p \in {Null, "{p:1}"}}

CallEntries == {AsstMsg(<<blk>>, <<>>) : blk \in CallBlocks}

CallNext ==
    \/ Len(entries) = 0 /\ ProcessEntry(UserHi)
    \/ \E e \in CallEntries : Len(entries) \in 1..MaxCallEntries /\ ProcessEntry(e)
    \/ ReturnTurns

SpecCall == TurnsInit /\ [][CallNext]_vars

(***************************************************************************)
(* Usage merge: two records merged into an empty accumulator in both       *)
(* orders.  A drawn record holds any subset of the ten keys, the two       *)
(* records together at most MaxUsageFields keys, each value in 0..MaxVal.  *)
(***************************************************************************)
PartialFns(F, n) ==
    UNION {[S -> 0..MaxVal] : S \in {T \in SUBSET F : Cardinality(T) <= n}}

PresentKeys(u) ==
    Cardinality(DOMAIN u.tok) + (IF u.cost = <<>> THEN 0 ELSE Cardinality(DOMAIN u.cost[1]))

UsageRecords(n) ==
    {u \in [tok  : PartialFns(TokFields, n),
            cost : {<<>>} \cup {<<c>> : c \in PartialFns(CostFields, n)}] :
        PresentKeys(u) <= n}

UsageInit ==
    /\ usageA \in {<<>>} \cup {<<u>> : u \in UsageRecords(MaxUsageFields)}
    /\ usageB \in {<<>>} \cup
          {<<u>> : u \in UsageRecords(MaxUsageFields
                                      - (IF usageA = <<>> THEN 0 ELSE PresentKeys(usageA[1])))}
    /\ accAB = EmptyUsage /\ accBA = EmptyUsage
    /\ merged = {}
    /\ TurnsIdle /\ TruncIdle /\ FilesIdle /\ HistIdle /\ InvIdle /\ OthersIdle

\* A, then B
MergeAB ==
    /\ "AB" \notin merged
    /\ accAB' = addUsage(addUsage(EmptyUsage, usageA), usageB)
    /\ merged' = merged \cup {"AB"}
    /\ UNCHANGED <<usageA, usageB, accBA, turnVars, truncVars, fileVars, histVars, inv, otherVars>>

\* B, then A
MergeBA ==
    /\ "BA" \notin merged
    /\ accBA' = addUsage(addUsage(EmptyUsage, usageB), usageA)
    /\ merged' = merged \cup {"BA"}
    /\ UNCHANGED <<usageA, usageB, accAB, turnVars, truncVars, fileVars, histVars, inv, otherVars>>

UsageNext == MergeAB \/ MergeBA

SpecUsage == UsageInit /\ [][UsageNext]_vars

(***************************************************************************)
(* C7.  Usage merge is commutative: merging A then B into an empty         *)
(* accumulator gives the same record as merging B then A, whatever subset  *)
(* of the five token keys and five cost keys each of them carries.         *)
(***************************************************************************)
C7_MergeCommutes == merged = {"AB", "BA"} => accAB = accBA

C7_Witness ==
    /\ merged = {"AB", "BA"}
    /\ usageA # <<>> /\ usageB # <<>>
    /\ DOMAIN usageA[1].tok = {"input"} /\ usageA[1].tok["input"] = 1
    /\ usageA[1].cost = <<>>
    /\ usageB[1].tok = EmptyFn
    /\ usageB[1].cost # <<>> /\ DOMAIN usageB[1].cost[1] = {"total"}
    /\ usageB[1].cost[1]["total"] = 2
    /\ accAB.tok["input"] = 1 /\ accAB.cost[1]["total"] = 2 /\ accAB.tok["output"] = 0

(***************************************************************************)
(* truncate(str, max) of the optimized handler.  The character U+2026 is   *)
(* the one-element text Ellipsis; a number is formatted in decimal.        *)
(***************************************************************************)
Ellipsis == "U+2026"

DigitChar(d) ==
    CASE d = 0 -> "0" [] d = 1 -> "1" [] d = 2 -> "2" [] d = 3 -> "3" [] d = 4 -> "4"
      [] d = 5 -> "5" [] d = 6 -> "6" [] d = 7 -> "7" [] d = 8 -> "8" [] d = 9 -> "9"

\* String(n) for n >= 0
RECURSIVE Digits(_)
Digits(n) == IF n < 10 THEN <<DigitChar(n)>> ELSE Digits(n \div 10) \o <<DigitChar(n % 10)>>

\* A slip: a string of exactly max characters is cut too.
truncateStrict(s, max) ==
    IF s = <<>> THEN s
    ELSE IF Len(s) < max THEN s
    ELSE SubSeq(s, 1, max) \o <<Ellipsis, " ", "[", "+">> \o Digits(Len(s) - max) \o <<"]">>

\* truncate(str, max)
truncate(s, max) ==
    IF s = <<>> THEN s
    ELSE IF Len(s) <= max THEN s
    ELSE SubSeq(s, 1, max) \o <<Ellipsis, " ", "[", "+">> \o Digits(Len(s) - max) \o <<"]">>

Letters == {"a", "b"}

ShortStrings == UNION {[1..n -> Letters] : n \in 0..MaxStrLen}
LongStrings  == {[i \in 1..n |-> "a"] : n \in (MaxStrLen + 1)..MaxLongLen}

TruncInit ==
    /\ str \in ShortStrings \cup LongStrings
    /\ budget \in 0..MaxBudget
    /\ truncated = <<>>
    /\ truncDone = FALSE
    /\ TurnsIdle /\ UsageIdle /\ FilesIdle /\ HistIdle /\ InvIdle /\ OthersIdle

Truncate ==
    /\ ~truncDone
    /\ truncated' = truncate(str, budget)
    /\ truncDone' = TRUE
    /\ UNCHANGED <<str, budget, turnVars, usageVars, fileVars, histVars, inv, otherVars>>

TruncNext == Truncate

SpecTrunc == TruncInit /\ [][TruncNext]_vars

\* the number a decimal numeral spells, -1 if it is not a numeral
DigitValue(c) ==
    CASE c = "0" -> 0 [] c = "1" -> 1 [] c = "2" -> 2 [] c = "3" -> 3 [] c = "4" -> 4
      [] c = "5" -> 5 [] c = "6" -> 6 [] c = "7" -> 7 [] c = "8" -> 8 [] c = "9" -> 9
      [] OTHER -> -1

RECURSIVE NumeralValue(_)
NumeralValue(ds) ==
    IF ds = <<>> THEN -1
    ELSE IF Len(ds) = 1 THEN DigitValue(ds[1])
    ELSE LET hi == NumeralValue(SubSeq(ds, 1, Len(ds) - 1))
             lo == DigitValue(ds[Len(ds)])
         IN IF hi < 0 \/ lo < 0 THEN -1 ELSE 10 * hi + lo

(***************************************************************************)
(* C9.  truncate(s, budget) returns s unchanged when length(s) <= budget;  *)
(* otherwise it returns the first budget characters of s followed by       *)
(* the ellipsis, " [+", the decimal numeral of length(s) - budget and "]". *)
(***************************************************************************)
C9_Truncate ==
    truncDone =>
        /\ Len(str) <= budget => truncated = str
        /\ Len(str) > budget =>
              LET rest == SubSeq(truncated, budget + 1, Len(truncated)) IN
              /\ Len(truncated) >= budget + 6
              /\ SubSeq(truncated, 1, budget) = SubSeq(str, 1, budget)
              /\ SubSeq(rest, 1, 4) = <<Ellipsis, " ", "[", "+">>
              /\ rest[Len(rest)] = "]"
              /\ NumeralValue(SubSeq(rest, 5, Len(rest) - 1)) = Len(str) - budget
              /\ (Len(rest) > 6 => rest[5] # "0")

C9_Witness ==
    /\ truncDone /\ budget = 2 /\ Len(str) = 12
    /\ truncated = <<"a", "a", Ellipsis, " ", "[", "+", "1", "0", "]">>

(***************************************************************************)
(* The incremental handler.                                                *)
(*                                                                         *)
(* Files.  The sessions directory of agent "main" holds one journal,       *)
(* s1.jsonl, whose lines are journalFile; every other path is missing.  A  *)
(* line is the value it parses to, GarbageLine when it is not JSON, or     *)
(* BlankLine when it is empty.                                             *)
(* The output file is logFile, one JSON value per line; JSON.stringify and *)
(* JSON.parse carry the strings, integers, nulls and lists of a payload    *)
(* unchanged, so a line is the payload itself.  extractedAt is left out.   *)
(*                                                                         *)
(* An event carries type, action, context.agentId, context.sessionId and   *)
(* sessionKey; sessionKey is the list of its ":"-separated segments.       *)
(***************************************************************************)
GarbageLine == Entry("garbage")
BlankLine   == Entry("blank")

JournalPath == [agent |-> "main", name |-> "s1"]
NoFile      == [agent |-> Null, name |-> Null]

\* resolveSessionFile(agentId, sessionId)
resolveSessionFile(agentId, sessionId) == [agent |-> agentId, name |-> sessionId]

\* .filter(Boolean)
NonEmptyLine(line) == line.type # "blank"

\* JSON.parse(line) succeeds
Parses(line) == line.type \notin {"garbage", "blank"}

\* JSON.parse(line)?.message?.role === "user"
HasUserRole(line) == Parses(line) /\ line.type # "null" /\ line.message /\ line.role = "user"

\* findNewestSessionFile(): the newest .jsonl of SESSIONS_DIR with a user-role message
findNewestSessionFile(jf) ==
    IF \E i \in DOMAIN jf : HasUserRole(jf[i]) THEN JournalPath ELSE NoFile

\* A slip: one unparsable line fails the whole read.
readSessionEntriesAllOrNothing(path, jf) ==
    IF path = JournalPath /\ \A i \in DOMAIN jf : Parses(jf[i]) THEN jf ELSE <<>>

\* A slip: the journal of the one session is read whatever the path.
readSessionEntriesAnyPath(path, jf) == SelectSeq(SelectSeq(jf, NonEmptyLine), Parses)

\* readSessionEntries(filePath): [] for a missing file, unparsable lines dropped
readSessionEntries(path, jf) ==
    IF path = JournalPath THEN SelectSeq(SelectSeq(jf, NonEmptyLine), Parses) ELSE <<>>

IsSessionEntry(e) == e.type = "session"

\* entries.find((e) => e.type === "session"), <<>> when there is none
FindSessionEntry(es) ==
    LET hs == SelectSeq(es, IsSessionEntry) IN IF hs = <<>> THEN <<>> ELSE <<hs[1]>>

\* sessionKey.replace(`agent:${agentId}:`, "").split(":")[0]
ChannelFromKey(sessionKey, agentId) ==
    IF sessionKey = <<>> THEN Null
    ELSE IF Len(sessionKey) >= 3 /\ sessionKey[1] = "agent" /\ sessionKey[2] = agentId
         THEN sessionKey[3]
    ELSE sessionKey[1]

\* resolveSessionMeta(event, entries) of the incremental handler
resolveSessionMeta(event, es) ==
    LET agentId == Coalesce(event.agentId, "main")
        h       == FindSessionEntry(es)
    IN [agentId    |-> agentId,
        sessionId  |-> event.sessionId,
        sessionKey |-> event.sessionKey,
        channel    |-> ChannelFromKey(event.sessionKey, agentId),
        cwd        |-> IF h = <<>> THEN Null ELSE h[1].cwd]

\* A slip: the empty string is kept.
OrNullKeepsEmpty(text) == <<text>>

\* text || null
OrNull(text) == IF text = <<>> THEN <<>> ELSE <<text>>

\* buildTurnPayload(sessionMeta, turn)
buildTurnPayload(meta, turn) ==
    [schema  |-> "openclaw-turn-v1",
     session |-> meta,
     turn    |-> [index |-> turn.index, timestamp |-> turn.timestamp, model |-> turn.model,
                  stopReason |-> turn.stopReason, usage |-> turn.usage,
                  userMessage |-> turn.userMessage, thinking |-> OrNull(turn.thinking),
                  toolCalls |-> turn.toolCalls, response |-> OrNull(turn.response)]]

\* an output-file line that JSON.parse rejects
UnparsableLine == [schema |-> "unparsable"]

\* JSON.parse(line) succeeds on an output-file line
LineParses(line) == line.schema # "unparsable"

IsTurnLine(line) == line.schema = "openclaw-turn-v1"

RECURSIVE MaxIndex(_, _, _)
MaxIndex(lines, sessionId, max) ==
    IF lines = <<>> THEN max
    ELSE LET obj == Head(lines)
             m   == IF /\ LineParses(obj)
                       /\ IsTurnLine(obj) /\ obj.session.sessionId = sessionId
                       /\ obj.turn.index > max
                    THEN obj.turn.index ELSE max
         IN MaxIndex(Tail(lines), sessionId, m)

\* A slip: the scan starts from index 0 instead of -1.
getLastWrittenTurnIndexFromZero(sessionId, lf) == MaxIndex(lf, sessionId, 0)

\* getLastWrittenTurnIndex(sessionId)
getLastWrittenTurnIndex(sessionId, lf) == MaxIndex(lf, sessionId, -1)

IsBootstrap(event)   == event.type = "agent" /\ event.action = "bootstrap"
IsMessageSent(event) == event.type = "message" /\ event.action = "sent"

\* HookHandler lines 235-249: the session id taken from the event, and the journal path
EventSessionId(event) == IF IsBootstrap(event) THEN event.sessionId ELSE Null

SessionFileOf(event, jf) ==
    IF IsBootstrap(event) /\ Truthy(event.sessionId)
    THEN resolveSessionFile(Coalesce(event.agentId, "main"), event.sessionId)
    ELSE findNewestSessionFile(jf)

\* HookHandler lines 256-260: the session id the dedup scan is given
ScanSessionId(event, path, es) ==
    IF Truthy(EventSessionId(event)) THEN EventSessionId(event)
    ELSE LET h == FindSessionEntry(es)
         IN IF h # <<>> /\ h[1].id # Null THEN h[1].id ELSE path.name

\* HookHandler lines 269-271: the session object written on every line
LineMeta(event, path, es) ==
    LET meta == resolveSessionMeta(event, es)
    IN [meta EXCEPT !.sessionId = Coalesce(@, ScanSessionId(event, path, es))]

\* A slip: the turn with the last written index is taken as new again.
RECURSIVE NewTurnsInclusive(_, _)
NewTurnsInclusive(ts, lastWritten) ==
    IF ts = <<>> THEN <<>>
    ELSE (IF Head(ts).index >= lastWritten THEN <<Head(ts)>> ELSE <<>>)
         \o NewTurnsInclusive(Tail(ts), lastWritten)

RECURSIVE NewTurns(_, _)
NewTurns(ts, lastWritten) ==
    IF ts = <<>> THEN <<>>
    ELSE (IF Head(ts).index > lastWritten THEN <<Head(ts)>> ELSE <<>>)
         \o NewTurns(Tail(ts), lastWritten)

RECURSIVE Payloads(_, _)
Payloads(meta, ts) ==
    IF ts = <<>> THEN <<>> ELSE <<buildTurnPayload(meta, Head(ts))>> \o Payloads(meta, Tail(ts))

\* A slip: every turn of the journal is appended, whatever the output file holds.
LinesToAppendNoScan(event, path, es, lf) ==
    LET t == extractTurns("incremental", es) IN
    IF t.threw \/ t.turns = <<>> THEN <<>>
    ELSE Payloads(LineMeta(event, path, es), t.turns)

\* HookHandler lines 262-275 on the entries read: the lines to append, given the output file
LinesToAppend(event, path, es, lf) ==
    LET t == extractTurns("incremental", es) IN
    IF t.threw \/ t.turns = <<>> THEN <<>>
    ELSE LET lastWritten == getLastWrittenTurnIndex(ScanSessionId(event, path, es), lf)
             new         == NewTurns(t.turns, lastWritten)
         IN Payloads(LineMeta(event, path, es), new)

\* HookHandler(event), run to completion: the lines it appends
HookHandler(event, jf, lf) ==
    IF ~IsBootstrap(event) /\ ~IsMessageSent(event) THEN <<>>
    ELSE LET path == SessionFileOf(event, jf) IN
         IF path = NoFile THEN <<>>
         ELSE LET es == readSessionEntries(path, jf) IN
              IF es = <<>> THEN <<>> ELSE LinesToAppend(event, path, es, lf)

(***************************************************************************)
(* Sequential runs of the incremental handler against a growing journal.   *)
(***************************************************************************)
EventKinds == {<<"agent", "bootstrap">>, <<"message", "sent">>, <<"command", "new">>}

Events == {[type |-> k[1], action |-> k[2], agentId |-> a, sessionId |-> sid,
            sessionKey |-> <<>>] :
              k \in EventKinds, a \in {Null, "ops"}, sid \in {Null, "s1", "s2"}}

JournalLines == {UserHi, AsstText, GarbageLine}

Init ==
    /\ journalFile = <<>>
    /\ logFile = <<>>
    /\ lastEvent = NoEvent
    /\ lastAppended = 0
    /\ repeated = FALSE
    /\ TurnsIdle /\ UsageIdle /\ TruncIdle /\ InvIdle /\ OthersIdle

\* the runtime appends a line to the journal; the session header is its first line
JournalAppend(line) ==
    /\ Len(journalFile) < MaxJournal
    /\ line = Header => journalFile = <<>>
    /\ journalFile' = Append(journalFile, line)
    /\ lastEvent' = NoEvent
    /\ repeated' = FALSE
    /\ UNCHANGED <<logFile, lastAppended, turnVars, usageVars, truncVars, inv, otherVars>>

\* a lifecycle event runs the handler to completion
HandleEvent(event) ==
    LET new == HookHandler(event, journalFile, logFile) IN
    /\ Len(logFile) + Len(new) <= MaxLog
    /\ logFile' = logFile \o new
    /\ repeated' = (lastEvent = event)
    /\ lastEvent' = event
    /\ lastAppended' = Len(new)
    /\ UNCHANGED <<journalFile, turnVars, usageVars, truncVars, inv, otherVars>>

Next ==
    \/ \E line \in JournalLines \cup {Header} : JournalAppend(line)
    \/ \E event \in Events : HandleEvent(event)

Spec == Init /\ [][Next]_vars

(***************************************************************************)
(* Overlapping invocations of the incremental handler for one session.     *)
(* Each invocation reads the journal, scans the output file and appends    *)
(* its lines one appendFileSync at a time; the steps of two invocations    *)
(* interleave, every single step is atomic.  No lock is taken anywhere in  *)
(* the handler.  Session-file discovery and the journal read are one step: *)
(* the journal only grows and the path does not change between them.       *)
(***************************************************************************)
Invocations == {1, 2}

IdleInvocation == [pc |-> "idle", event |-> NoEvent, path |-> NoFile,
                   entries |-> <<>>, queue |-> <<>>]

\* two events of session s1: both scan for and write session id "s1"
ConcEvents ==
    {[type |-> "agent", action |-> "bootstrap", agentId |-> Null, sessionId |-> "s1",
      sessionKey |-> <<>>],
     [type |-> "message", action |-> "sent", agentId |-> Null, sessionId |-> Null,
      sessionKey |-> <<>>]}

ConcInit ==
    /\ journalFile = <<>>
    /\ logFile = <<>>
    /\ inv = [p \in Invocations |-> IdleInvocation]
    /\ TurnsIdle /\ UsageIdle /\ TruncIdle /\ HistIdle /\ OthersIdle

ConcJournalAppend(line) ==
    /\ Len(journalFile) < MaxJournal
    /\ journalFile' = Append(journalFile, line)
    /\ UNCHANGED <<logFile, inv, turnVars, usageVars, truncVars, histVars, otherVars>>

\* the runtime fires a lifecycle event: HookHandler(event) is called
StartInvocation(p, event) ==
    /\ inv[p].pc = "idle"
    /\ Len(logFile) < MaxLog
    /\ inv' = [inv EXCEPT ![p] = [IdleInvocation EXCEPT !.pc = "read", !.event = event]]
    /\ UNCHANGED <<fileVars, turnVars, usageVars, truncVars, histVars, otherVars>>

\* lines 235-254: find the session file and read its entries
ReadJournal(p) ==
    /\ inv[p].pc = "read"
    /\ LET path == SessionFileOf(inv[p].event, journalFile)
           es   == readSessionEntries(path, journalFile)
       IN inv' = [inv EXCEPT ![p] =
                    IF path = NoFile \/ es = <<>> THEN IdleInvocation
                    ELSE [@ EXCEPT !.pc = "scan", !.path = path, !.entries = es]]
    /\ UNCHANGED <<fileVars, turnVars, usageVars, truncVars, histVars, otherVars>>

\* lines 262-271: build the turns, scan the output file, keep the turns not yet written
DedupScan(p) ==
    /\ inv[p].pc = "scan"
    /\ LET q == LinesToAppend(inv[p].event, inv[p].path, inv[p].entries, logFile)
       IN inv' = [inv EXCEPT ![p] =
                    IF q = <<>> THEN IdleInvocation
                    ELSE [@ EXCEPT !.pc = "append", !.queue = q]]
    /\ UNCHANGED <<fileVars, turnVars, usageVars, truncVars, histVars, otherVars>>

\* lines 273-275: one appendJsonlLine
AppendLine(p) ==
    /\ inv[p].pc = "append"
    /\ logFile' = Append(logFile, Head(inv[p].queue))
    /\ inv' = [inv EXCEPT ![p] =
                 IF Tail(@.queue) = <<>> THEN IdleInvocation
                 ELSE [@ EXCEPT !.queue = Tail(@)]]
    /\ UNCHANGED <<journalFile, turnVars, usageVars, truncVars, histVars, otherVars>>

ConcNext ==
    \/ \E line \in {UserHi, AsstText} : ConcJournalAppend(line)
    \/ \E p \in Invocations, event \in ConcEvents : StartInvocation(p, event)
    \/ \E p \in Invocations : ReadJournal(p)
    \/ \E p \in Invocations : DedupScan(p)
    \/ \E p \in Invocations : AppendLine(p)

SpecConc == ConcInit /\ [][ConcNext]_vars

(***************************************************************************)
(* Sequential runs of the incremental handler against a growing journal    *)
(* with tool calls: a user message, an assistant message calling t1 and    *)
(* the tool result for t1 are appended in any order, so a result can       *)
(* arrive after a later user message has closed the turn of its call.      *)
(***************************************************************************)
GrowLines == {UserHi, AsstCall, ResultT1}

GrowEvents ==
    {[type |-> "agent", action |-> "bootstrap", agentId |-> Null, sessionId |-> "s1",
      sessionKey |-> <<>>],
     [type |-> "message", action |-> "sent", agentId |-> Null, sessionId |-> Null,
      sessionKey |-> <<>>]}

\* the runtime appends a line to the journal
GrowAppend(line) ==
    /\ Len(journalFile) < MaxGrown
    /\ journalFile' = Append(journalFile, line)
    /\ lastEvent' = NoEvent
    /\ repeated' = FALSE
    /\ UNCHANGED <<logFile, lastAppended, turnVars, usageVars, truncVars, inv, otherVars>>

GrowNext ==
    \/ \E line \in GrowLines : GrowAppend(line)
    \/ \E event \in GrowEvents : HandleEvent(event)

SpecGrow == Init /\ [][GrowNext]_vars

(***************************************************************************)
(* Two invocations of the incremental handler within one event loop.  An   *)
(* invocation yields only at its awaits: findNewestSessionFile (line 244   *)
(* or 248) and readSessionEntries (line 253).  What follows the journal    *)
(* read is synchronous: extractTurns, getLastWrittenTurnIndex              *)
(* (readFileSync) and every appendJsonlLine (appendFileSync) run as one    *)
(* step that no other invocation can interleave with.                      *)
(***************************************************************************)
\* events of session s1: each scans for and writes session id "s1"
LoopEvents ==
    {[type |-> k[1], action |-> k[2], agentId |-> Null, sessionId |-> sid,
      sessionKey |-> <<>>] :
        k \in {<<"agent", "bootstrap">>, <<"message", "sent">>}, sid \in {Null, "s1"}}

\* HookHandler(event) is called and runs to its first await
LoopStart(p, event) ==
    /\ inv[p].pc = "idle"
    /\ inv' = [inv EXCEPT ![p] =
                 IF IsBootstrap(event) /\ Truthy(event.sessionId)
                 THEN [IdleInvocation EXCEPT !.pc = "read", !.event = event,
                                             !.path = SessionFileOf(event, journalFile)]
                 ELSE [IdleInvocation EXCEPT !.pc = "find", !.event = event]]
    /\ UNCHANGED <<fileVars, turnVars, usageVars, truncVars, histVars, otherVars>>

\* await findNewestSessionFile() resumes
LoopFind(p) ==
    /\ inv[p].pc = "find"
    /\ LET path == findNewestSessionFile(journalFile)
       IN inv' = [inv EXCEPT ![p] =
                    IF path = NoFile THEN IdleInvocation
                    ELSE [@ EXCEPT !.pc = "read", !.path = path]]
    /\ UNCHANGED <<fileVars, turnVars, usageVars, truncVars, histVars, otherVars>>

\* await readSessionEntries(sessionFile) resumes and the handler runs to its end
LoopReadAndWrite(p) ==
    /\ inv[p].pc = "read"
    /\ LET es  == readSessionEntries(inv[p].path, journalFile)
           new == IF es = <<>> THEN <<>>
                  ELSE LinesToAppend(inv[p].event, inv[p].path, es, logFile)
       IN /\ Len(logFile) + Len(new) <= MaxLog
          /\ logFile' = logFile \o new
    /\ inv' = [inv EXCEPT ![p] = IdleInvocation]
    /\ UNCHANGED <<journalFile, turnVars, usageVars, truncVars, histVars, otherVars>>

LoopNext ==
    \/ \E line \in {UserHi, AsstText} : ConcJournalAppend(line)
    \/ \E p \in Invocations, event \in LoopEvents : LoopStart(p, event)
    \/ \E p \in Invocations : LoopFind(p)
    \/ \E p \in Invocations : LoopReadAndWrite(p)

SpecLoop == ConcInit /\ [][LoopNext]_vars

(***************************************************************************)
(* The full handler (src/hook/handler.js), the optimized handler           *)
(* (part_000) and the session-start handler (part_006).                    *)
(*                                                                         *)
(* Here an event also carries context.cwd and context.cfg; of cfg the      *)
(* model keeps channels.discord.token, gateway.auth.token and              *)
(* agents.defaults.model.primary.  conversation-extractor.log and the      *)
(* verbose log are sequences of appended blocks, a block being the         *)
(* separator line followed by the pretty-printed payload, which the model  *)
(* keeps as the payload itself.  A tool call's input object is a token;    *)
(* Object.keys and JSON.stringify of it are kept as tagged tokens.         *)
(***************************************************************************)
THINKING_PREVIEW    == 400
RESPONSE_PREVIEW    == 600
TOOL_RESULT_PREVIEW == 300

NoCfg == [discordToken |-> Null, gatewayToken |-> Null, modelPrimary |-> Null]

IsCommandNew(event) == event.type = "command" /\ event.action = "new"

\* resolveSessionMeta(event, entries) of the full handler
resolveSessionMetaFull(event, es) ==
    LET h == FindSessionEntry(es)
    IN [agentId    |-> event.agentId,
        sessionId  |-> event.sessionId,
        sessionKey |-> event.sessionKey,
        channel    |-> ChannelFromKey(event.sessionKey, event.agentId),
        cwd        |-> IF h = <<>> THEN Null ELSE h[1].cwd]

\* A slip: the gateway token is read where the model name is meant.
resolveSessionMetaReadsToken(event) ==
    [agentId    |-> event.agentId,
     sessionId  |-> event.sessionId,
     sessionKey |-> event.sessionKey,
     channel    |-> ChannelFromKey(event.sessionKey, event.agentId),
     model      |-> event.cfg.gatewayToken]

\* resolveSessionMeta(event) of the optimized handler
resolveSessionMetaOptimized(event) ==
    [agentId    |-> event.agentId,
     sessionId  |-> event.sessionId,
     sessionKey |-> event.sessionKey,
     channel    |-> ChannelFromKey(event.sessionKey, event.agentId),
     model      |-> event.cfg.modelPrimary]

\* turns.reduce((n, t) => n + t.toolCalls.length, 0)
RECURSIVE ToolCallCount(_)
ToolCallCount(ts) ==
    IF ts = <<>> THEN 0 ELSE Len(Head(ts).toolCalls) + ToolCallCount(Tail(ts))

\* turns.filter((t) => t.thinking.length > 0).length
RECURSIVE ThinkingTurnCount(_)
ThinkingTurnCount(ts) ==
    IF ts = <<>> THEN 0
    ELSE (IF Head(ts).thinking # <<>> THEN 1 ELSE 0) + ThinkingTurnCount(Tail(ts))

\* turns.reduce((sum, t) => sum + (t.usage?.cost?.total ?? 0), 0)
RECURSIVE TotalCost(_)
TotalCost(ts) ==
    IF ts = <<>> THEN 0
    ELSE (IF Head(ts).usage = <<>> THEN 0 ELSE GetCost(Head(ts).usage[1], "total"))
         + TotalCost(Tail(ts))

\* buildPayload lines 195-211: one element of turns.map
PayloadTurn(t) ==
    [index |-> t.index, timestamp |-> t.timestamp, model |-> t.model,
     stopReason |-> t.stopReason, usage |-> t.usage, userMessage |-> t.userMessage,
     thinking |-> OrNull(t.thinking), toolCalls |-> t.toolCalls,
     response |-> OrNull(t.response)]

\* buildPayload(sessionMeta, turns, entries)
buildPayload(meta, ts, es) ==
    [schema  |-> "openclaw-conversation-v1",
     session |-> meta,
     stats   |-> [totalEntries |-> Len(es), turns |-> Len(ts),
                  toolCallCount |-> ToolCallCount(ts),
                  thinkingTurnCount |-> ThinkingTurnCount(ts),
                  totalCost |-> TotalCost(ts)],
     turns   |-> [i \in DOMAIN ts |-> PayloadTurn(ts[i])]]

\* buildOptimizedPayload lines 165-173: one element of t.toolCalls.map
OptimizedToolCall(tc) ==
    [name |-> tc.name,
     inputKeys |-> <<"keys", tc.input>>,
     inputPreview |-> <<"json", tc.input>>,
     resultPreview |-> IF tc.result = <<>> THEN <<>>
                       ELSE <<truncate(tc.result[1], TOOL_RESULT_PREVIEW)>>,
     isError |-> tc.isError]

\* buildOptimizedPayload lines 160-175: one element of turns.map
OptimizedTurn(t) ==
    [index |-> t.index, timestamp |-> t.timestamp,
     userMessage |-> truncate(t.userMessage, RESPONSE_PREVIEW),
     thinking |-> OrNull(truncate(t.thinking, THINKING_PREVIEW)),
     toolCalls |-> [i \in DOMAIN t.toolCalls |-> OptimizedToolCall(t.toolCalls[i])],
     response |-> truncate(t.response, RESPONSE_PREVIEW)]

\* buildOptimizedPayload(sessionMeta, turns, entries)
buildOptimizedPayload(meta, ts, es) ==
    [schema  |-> "openclaw-conversation-v1",
     session |-> meta,
     stats   |-> [totalEntries |-> Len(es), turns |-> Len(ts),
                  toolCallCount |-> ToolCallCount(ts),
                  thinkingTurnCount |-> ThinkingTurnCount(ts)],
     turns   |-> [i \in DOMAIN ts |-> OptimizedTurn(ts[i])]]

\* the verbose block of the optimized handler, lines 234-239
RawPayload(meta, es) ==
    [schema |-> "openclaw-conversation-raw-v1", session |-> meta, entries |-> es]

\* the session-start marker, part_006 lines 32-40
SessionStartPayload(event) ==
    [schema  |-> "openclaw-session-start-v1",
     session |-> [agentId |-> Coalesce(event.agentId, "main"),
                  sessionId |-> event.sessionId,
                  cwd |-> event.cwd]]

\* A slip: the file is written, not appended to.
writeLog(file, data) == <<data>>

\* appendLog(filePath, data): fs.appendFileSync of one block
appendLog(file, data) == Append(file, data)

\* appendJsonlLine(filePath, data): fs.appendFileSync of one line
appendJsonlLine(file, data) == Append(file, data)

\* for (const turn of newTurns) appendJsonlLine(LOG_FILE, ...)
RECURSIVE AppendLines(_, _)
AppendLines(file, lines) ==
    IF lines = <<>> THEN file
    ELSE AppendLines(appendJsonlLine(file, Head(lines)), Tail(lines))

\* what one run leaves: the blocks for the two logs, the entries read, a thrown error
NoOutcome == [handled |-> FALSE, entries |-> <<>>, conv |-> <<>>, raw |-> <<>>,
              threw |-> FALSE]

\* the full handler without its event filter
HookHandlerFullAnyEvent(event, jf) ==
    IF ~Truthy(event.agentId) \/ ~Truthy(event.sessionId) THEN NoOutcome
    ELSE LET es == readSessionEntries(resolveSessionFile(event.agentId, event.sessionId), jf)
             o  == [NoOutcome EXCEPT !.handled = TRUE, !.entries = es]
         IN IF es = <<>> THEN o
            ELSE LET t == extractTurns("full", es) IN
                 IF t.threw THEN [o EXCEPT !.threw = TRUE]
                 ELSE IF t.turns = <<>> THEN o
                 ELSE [o EXCEPT !.conv =
                          <<buildPayload(resolveSessionMetaFull(event, es), t.turns, es)>>]

\* HookHandler(event) of the full handler, run to completion
HookHandlerFull(event, jf) ==
    IF ~IsBootstrap(event) /\ ~IsCommandNew(event) THEN NoOutcome
    ELSE IF ~Truthy(event.agentId) \/ ~Truthy(event.sessionId) THEN NoOutcome
    ELSE LET es == readSessionEntries(resolveSessionFile(event.agentId, event.sessionId), jf)
             o  == [NoOutcome EXCEPT !.handled = TRUE, !.entries = es]
         IN IF es = <<>> THEN o
            ELSE LET t == extractTurns("full", es) IN
                 IF t.threw THEN [o EXCEPT !.threw = TRUE]
                 ELSE IF t.turns = <<>> THEN o
                 ELSE [o EXCEPT !.conv =
                          <<buildPayload(resolveSessionMetaFull(event, es), t.turns, es)>>]

\* HookHandler(event) of the optimized handler, run to completion
HookHandlerOptimized(event, jf, vb) ==
    IF ~IsBootstrap(event) /\ ~IsCommandNew(event) THEN NoOutcome
    ELSE LET meta == resolveSessionMetaOptimized(event) IN
         IF ~Truthy(meta.agentId) \/ ~Truthy(meta.sessionId) THEN NoOutcome
         ELSE LET es == readSessionEntries(resolveSessionFile(meta.agentId, meta.sessionId), jf)
                  o  == [NoOutcome EXCEPT !.handled = TRUE, !.entries = es]
              IN IF es = <<>> THEN o
                 ELSE LET t == extractTurns("optimized", es) IN
                      IF t.threw THEN [o EXCEPT !.threw = TRUE]
                      ELSE IF t.turns = <<>> THEN o
                      ELSE [o EXCEPT !.conv = <<buildOptimizedPayload(meta, t.turns, es)>>,
                                     !.raw = IF vb THEN <<RawPayload(meta, es)>> ELSE <<>>]

\* HookHandler(event) of the session-start handler: the marker it appends, if any
HookHandlerSessionStart(event) ==
    IF ~IsBootstrap(event) THEN <<>> ELSE <<SessionStartPayload(event)>>

(***************************************************************************)
(* Runs of the four handlers, one after another, against one journal.      *)
(* The journal is drawn at the start and does not change; journalFile =    *)
(* <<>> is the journal missing or empty.  Every run takes one event and    *)
(* one handler; the full and the optimized handler share                   *)
(* conversation-extractor.log, the incremental and the session-start       *)
(* handler share conversation-extractor.jsonl.                             *)
(***************************************************************************)
HookJournals ==
    {<<>>,
     <<Header>>,
     <<CaseUser, CaseAsst>>,
     <<UserHi, GarbageLine, UserHi>>,
     <<UserHi, BlankLine, AsstText>>,
     <<Header, UserHi, AsstCall, ResultT1, UserHi>>,
     <<UserHi, NullEntry>>}

CfgSamples == {NoCfg, [NoCfg EXCEPT !.modelPrimary = "m1"]}

HookEvents ==
    {[type |-> k[1], action |-> k[2], agentId |-> a, sessionId |-> sid,
      sessionKey |-> <<>>, cwd |-> "/w", cfg |-> c] :
        k \in EventKinds, a \in {Null, "main"}, sid \in {Null, "s1", "s2"}, c \in CfgSamples}

\* the journal a run is pointed at does not exist (or is empty)
JournalMissing(path, jf) == path # JournalPath \/ jf = <<>>

HooksInit ==
    /\ journalFile \in HookJournals
    /\ logFile = <<>>
    /\ convLog = <<>>
    /\ verboseLog = <<>>
    /\ verbose \in BOOLEAN
    /\ runs = 0
    /\ lastRun = NoRun
    /\ started = {}
    /\ TurnsIdle /\ UsageIdle /\ TruncIdle /\ HistIdle /\ InvIdle /\ ScanIdle /\ PairIdle

\* the full handler handles one event
RunFull(event) ==
    LET o == HookHandlerFull(event, journalFile) IN
    /\ runs < MaxRuns
    /\ runs' = runs + 1
    /\ convLog' = IF o.conv = <<>> THEN convLog ELSE appendLog(convLog, o.conv[1])
    /\ lastRun' = [handler |-> "full", event |-> EventKey(event), handled |-> o.handled,
                   missing |-> o.handled /\ JournalMissing(
                                  resolveSessionFile(event.agentId, event.sessionId),
                                  journalFile),
                   entries |-> o.entries,
                   appended |-> Len(convLog') - Len(convLog),
                   threw |-> o.threw]
    /\ UNCHANGED <<journalFile, logFile, verboseLog, verbose, started,
                   turnVars, usageVars, truncVars, histVars, inv, scanVars, pairVars>>

\* the optimized handler handles one event
RunOptimized(event) ==
    LET o == HookHandlerOptimized(event, journalFile, verbose) IN
    /\ runs < MaxRuns
    /\ runs' = runs + 1
    /\ convLog' = IF o.conv = <<>> THEN convLog ELSE appendLog(convLog, o.conv[1])
    /\ verboseLog' = IF o.raw = <<>> THEN verboseLog ELSE appendLog(verboseLog, o.raw[1])
    /\ lastRun' = [handler |-> "optimized", event |-> EventKey(event), handled |-> o.handled,
                   missing |-> o.handled /\ JournalMissing(
                                  resolveSessionFile(event.agentId, event.sessionId),
                                  journalFile),
                   entries |-> o.entries,
                   appended |-> (Len(convLog') - Len(convLog))
                                + (Len(verboseLog') - Len(verboseLog)),
                   threw |-> o.threw]
    /\ UNCHANGED <<journalFile, logFile, verbose, started,
                   turnVars, usageVars, truncVars, histVars, inv, scanVars, pairVars>>

\* the incremental handler handles one event
RunIncremental(event) ==
    LET handled == IsBootstrap(event) \/ IsMessageSent(event)
        path    == SessionFileOf(event, journalFile)
        es      == IF handled /\ path # NoFile
                   THEN readSessionEntries(path, journalFile) ELSE <<>>
    IN
    /\ runs < MaxRuns
    /\ runs' = runs + 1
    /\ logFile' = AppendLines(logFile, HookHandler(event, journalFile, logFile))
    /\ lastRun' = [handler |-> "incremental", event |-> EventKey(event), handled |-> handled,
                   missing |-> handled /\ JournalMissing(path, journalFile),
                   entries |-> es,
                   appended |-> Len(logFile') - Len(logFile),
                   threw |-> extractTurns("incremental", es).threw]
    /\ UNCHANGED <<journalFile, convLog, verboseLog, verbose, started,
                   turnVars, usageVars, truncVars, histVars, inv, scanVars, pairVars>>

\* the session-start handler handles one event
RunSessionStart(event) ==
    LET marker == HookHandlerSessionStart(event) IN
    /\ runs < MaxRuns
    /\ runs' = runs + 1
    /\ logFile' = IF marker = <<>> THEN logFile ELSE appendJsonlLine(logFile, marker[1])
    /\ started' = IF IsBootstrap(event) THEN started \cup {event.sessionId} ELSE started
    /\ lastRun' = [handler |-> "session-start", event |-> EventKey(event), handled |-> IsBootstrap(event),
                   missing |-> FALSE, entries |-> <<>>,
                   appended |-> Len(logFile') - Len(logFile),
                   threw |-> FALSE]
    /\ UNCHANGED <<journalFile, convLog, verboseLog, verbose,
                   turnVars, usageVars, truncVars, histVars, inv, scanVars, pairVars>>

HooksNext ==
    \E event \in HookEvents :
        \/ RunFull(event)
        \/ RunOptimized(event)
        \/ RunIncremental(event)
        \/ RunSessionStart(event)

SpecHooks == HooksInit /\ [][HooksNext]_vars

(***************************************************************************)
(* getLastWrittenTurnIndex on an output file drawn line by line from turn  *)
(* lines of two sessions, a session-start marker and a line that is not    *)
(* JSON.  logFile = <<>> is the file missing, unreadable or empty.         *)
(***************************************************************************)
ScanSessions == {"s1", "s2"}

SampleTurn(i) ==
    [index |-> i, timestamp |-> "ts1", userMessage |-> <<"h", "i">>, thinking |-> <<>>,
     toolCalls |-> <<>>, response |-> <<"o", "k">>, model |-> Null, stopReason |-> Null,
     usage |-> <<>>]

SampleEvent(sid) ==
    [type |-> "agent", action |-> "bootstrap", agentId |-> Null, sessionId |-> sid,
     sessionKey |-> <<>>, cwd |-> Null, cfg |-> NoCfg]

TurnLine(sid, i) == buildTurnPayload(resolveSessionMeta(SampleEvent(sid), <<>>), SampleTurn(i))
MarkerLine(sid)  == SessionStartPayload(SampleEvent(sid))

ScanLines ==
    {TurnLine(sid, i) : sid \in ScanSessions, i \in 0..MaxScanIndex}
    \cup {MarkerLine("s1"), UnparsableLine}

ScanInit ==
    /\ logFile \in UNION {[1..n -> ScanLines] : n \in 0..MaxScanLines}
    /\ scanId \in ScanSessions
    /\ scanResult = <<>>
    /\ journalFile = <<>>
    /\ TurnsIdle /\ UsageIdle /\ TruncIdle /\ HistIdle /\ InvIdle /\ HooksIdle /\ PairIdle

\* getLastWrittenTurnIndex(sessionId) is called
Scan ==
    /\ scanResult = <<>>
    /\ scanResult' = <<getLastWrittenTurnIndex(scanId, logFile)>>
    /\ UNCHANGED <<scanId, fileVars, turnVars, usageVars, truncVars, histVars, inv,
                   hookVars, pairVars>>

ScanNext == Scan

SpecScan == ScanInit /\ [][ScanNext]_vars

(***************************************************************************)
(* One handler run on each of two events that differ only inside           *)
(* context.cfg, against the same journal and the same (empty) output       *)
(* files.  out holds everything the run appended, extractedAt left out.    *)
(***************************************************************************)
PairHandlers == {"full", "optimized", "incremental", "session-start"}

PairJournals ==
    {<<CaseUser, CaseAsst>>,
     <<UserHi, UserHi>>,
     <<Header, UserHi, AsstCall, ResultT1, UserHi>>}

PairCfgs ==
    [discordToken : {Null, "d1"}, gatewayToken : {Null, "g1"}, modelPrimary : {Null, "m1"}]

PairEvents ==
    {[type |-> k[1], action |-> k[2], agentId |-> "main", sessionId |-> sid,
      sessionKey |-> <<>>, cwd |-> "/w", cfg |-> c] :
        k \in EventKinds, sid \in {Null, "s1"}, c \in PairCfgs}

\* everything one run of handler h appends
PairOutput(h, event, jf, vb) ==
    IF h = "full"
    THEN LET o == HookHandlerFull(event, jf)
         IN [conv |-> o.conv, raw |-> o.raw, lines |-> <<>>]
    ELSE IF h = "optimized"
    THEN LET o == HookHandlerOptimized(event, jf, vb)
         IN [conv |-> o.conv, raw |-> o.raw, lines |-> <<>>]
    ELSE IF h = "incremental"
    THEN [conv |-> <<>>, raw |-> <<>>, lines |-> HookHandler(event, jf, <<>>)]
    ELSE [conv |-> <<>>, raw |-> <<>>, lines |-> HookHandlerSessionStart(event)]

PairInit ==
    /\ journalFile \in PairJournals
    /\ logFile = <<>>
    /\ eventA \in PairEvents
    /\ eventB \in {e \in PairEvents : [e EXCEPT !.cfg = eventA.cfg] = eventA}
    /\ niHandler \in PairHandlers
    /\ verbose = TRUE
    /\ outA = <<>> /\ outB = <<>>
    /\ convLog = <<>> /\ verboseLog = <<>> /\ runs = 0 /\ lastRun = NoRun /\ started = {}
    /\ TurnsIdle /\ UsageIdle /\ TruncIdle /\ HistIdle /\ InvIdle /\ ScanIdle

\* the handler runs on eventA and, from the same files, on eventB
RunPair ==
    /\ outA = <<>>
    /\ outA' = <<PairOutput(niHandler, eventA, journalFile, verbose)>>
    /\ outB' = <<PairOutput(niHandler, eventB, journalFile, verbose)>>
    /\ UNCHANGED <<eventA, eventB, niHandler, fileVars, turnVars, usageVars, truncVars,
                   histVars, inv, hookVars, scanVars>>

PairNext == RunPair

SpecPair == PairInit /\ [][PairNext]_vars

(***************************************************************************)
(* What a journal says, read off the entries without the builder.          *)
(***************************************************************************)
IsUserEntry(e)      == e.type = "message" /\ e.message /\ e.role = "user"
IsAssistantEntry(e) == e.type = "message" /\ e.message /\ e.role = "assistant"
IsResultEntry(e)    == e.type = "message" /\ e.message /\ e.role = "toolResult"

UserPositions(es) == {i \in DOMAIN es : IsUserEntry(es[i])}
UserCount(es)     == Cardinality(UserPositions(es))

\* position of the k-th user entry, k in 1..UserCount(es)
UserPosition(es, k) ==
    CHOOSE i \in UserPositions(es) : Cardinality({j \in UserPositions(es) : j <= i}) = k

\* positions after the k-th user entry and before the next one
TurnSpan(es, k) ==
    {i \in DOMAIN es : /\ i > UserPosition(es, k)
                       /\ \A j \in UserPositions(es) : j > UserPosition(es, k) => i < j}

UsageCarriers(es, k) ==
    {i \in TurnSpan(es, k) : IsAssistantEntry(es[i]) /\ es[i].usage # <<>>}

RECURSIVE SumTok(_, _, _)
SumTok(es, is, f) ==
    IF is = {} THEN 0
    ELSE LET i == CHOOSE x \in is : TRUE
         IN Get(es[i].usage[1].tok, f) + SumTok(es, is \ {i}, f)

RECURSIVE SumCost(_, _, _)
SumCost(es, is, f) ==
    IF is = {} THEN 0
    ELSE LET i == CHOOSE x \in is : TRUE
         IN GetCost(es[i].usage[1], f) + SumCost(es, is \ {i}, f)

\* the tool-call blocks of one assistant entry, as <<position, id>>
RECURSIVE BlockSites(_, _)
BlockSites(i, bs) ==
    IF bs = <<>> THEN <<>>
    ELSE (IF Head(bs).type \in {"toolCall", "tool_use"} THEN <<<<i, Head(bs).id>>>> ELSE <<>>)
         \o BlockSites(i, Tail(bs))

\* every tool-call block met while a turn is open, in journal order
RECURSIVE CallSitesFrom(_, _)
CallSitesFrom(es, i) ==
    IF i > Len(es) THEN <<>>
    ELSE (IF /\ IsAssistantEntry(es[i])
             /\ \E j \in UserPositions(es) : j < i
             /\ es[i].content.kind = "blocks"
          THEN BlockSites(i, es[i].content.blocks) ELSE <<>>)
         \o CallSitesFrom(es, i + 1)

CallSites(es) == CallSitesFrom(es, 1)

ResultId(e) == IF e.toolCallId # Null THEN e.toolCallId ELSE e.toolUseId

\* no toolResult entry after position p carries id
NeverAnswered(es, p, id) ==
    \A j \in DOMAIN es : (j > p /\ IsResultEntry(es[j])) => ResultId(es[j]) # id

RECURSIVE AllToolCalls(_)
AllToolCalls(ts) == IF ts = <<>> THEN <<>> ELSE Head(ts).toolCalls \o AllToolCalls(Tail(ts))

OnlyObjects(es) == \A i \in DOMAIN es : es[i].type # "null"

\* the call sites a toolResult entry at position j may belong to: those before it with its id
SitesBefore(es, j) ==
    {n \in DOMAIN CallSites(es) :
        /\ CallSites(es)[n][1] < j
        /\ CallSites(es)[n][2] # Null /\ CallSites(es)[n][2] = ResultId(es[j])}

\* the call site the toolResult entry at position j answers, 0 when it answers none:
\* the latest site before it with its id, unless an earlier result took that id
AnsweredSite(es, j) ==
    IF ~IsResultEntry(es[j]) \/ SitesBefore(es, j) = {} THEN 0
    ELSE LET n == CHOOSE x \in SitesBefore(es, j) : \A y \in SitesBefore(es, j) : y <= x
         IN IF \E k \in DOMAIN es : /\ CallSites(es)[n][1] < k /\ k < j
                                     /\ IsResultEntry(es[k])
                                     /\ ResultId(es[k]) = ResultId(es[j])
            THEN 0 ELSE n

\* a user message lies between positions p and j
UserBetween(es, p, j) == \E u \in UserPositions(es) : p < u /\ u < j

\* the turn (1-based) whose span holds position p
TurnOfPosition(es, p) == Cardinality({u \in UserPositions(es) : u < p})

(***************************************************************************)
(* C5.  For a journal with exactly N user-message entries, the turn        *)
(* builder of the full and of the optimized handler returns exactly N      *)
(* turns; the turn opened by the last user entry is finalized at the end   *)
(* of the journal and is the last turn returned.                           *)
(***************************************************************************)
C5_TurnCount ==
    (pass = "done" /\ variant \in {"full", "optimized"}) =>
        /\ Len(result) = UserCount(entries)
        /\ UserCount(entries) > 0 =>
              LET last == result[Len(result)]
                  p    == UserPosition(entries, UserCount(entries))
              IN /\ last.index = UserCount(entries) - 1
                 /\ last.userMessage = extractTextFromContent(entries[p].content)

C5_Witness ==
    /\ pass = "done" /\ variant = "optimized"
    /\ Len(entries) = 3 /\ IsUserEntry(entries[3]) /\ UserCount(entries) = 2
    /\ Len(result) = 2

C8_UsageIsSum ==
    (pass = "done" /\ variant \in {"full", "incremental"}) =>
        \A k \in DOMAIN result :
            LET is == UsageCarriers(entries, k) IN
            /\ (result[k].usage = <<>>) <=> (is = {})
            /\ is # {} =>
                 /\ \A f \in TokFields :
                        result[k].usage[1].tok[f] = SumTok(entries, is, f)
                 /\ \A f \in CostFields :
                        result[k].usage[1].cost[1][f] = SumCost(entries, is, f)

C8_Witness ==
    /\ pass = "done" /\ variant = "full" /\ Len(result) = 2
    /\ result[1].usage # <<>> /\ result[1].usage[1].tok["input"] = 3
    /\ result[1].usage[1].cost[1]["total"] = 1
    /\ result[2].usage = <<>>

(***************************************************************************)
(* C10.  A toolCall block with a non-null id that no later toolResult      *)
(* entry of the journal carries ends the pass of the full handler in its   *)
(* turn with result null and isError null, and a pass over a journal of    *)
(* JSON objects raises no error.                                           *)
(***************************************************************************)
C10_UnresolvedToolCall ==
    variant = "full" =>
        /\ OnlyObjects(entries) => pass # "threw"
        /\ pass = "done" =>
              LET sites == CallSites(entries)
                  tcs   == AllToolCalls(result)
              IN /\ Len(tcs) = Len(sites)
                 /\ \A n \in DOMAIN sites :
                       (sites[n][2] # Null /\ NeverAnswered(entries, sites[n][1], sites[n][2]))
                       => (tcs[n].id = sites[n][2] /\ tcs[n].result = <<>>
                           /\ tcs[n].isError = <<>>)

C10_Witness ==
    /\ pass = "done" /\ variant = "full"
    /\ entries = <<UserHi, AsstCall, ResultT2>>
    /\ Len(result) = 1 /\ Len(result[1].toolCalls) = 1
    /\ result[1].toolCalls[1].id = "t1" /\ result[1].toolCalls[1].result = <<>>

(***************************************************************************)
(* C11.  For a journal in which an assistant message of the open turn      *)
(* calls tool "read" as t1 and a later entry of the same turn is the       *)
(* toolResult message for t1 with isError false, the full handler's turn   *)
(* ends with that ToolCall's isError false and its result read from the    *)
(* content of the message: "ok" when the content list is inside message,   *)
(* the empty string when the list sits on the entry beside message.        *)
(***************************************************************************)
C11_ResultFromMessageContent ==
    (pass = "done" /\ variant = "full") =>
        \A j \in DOMAIN entries :
            LET n   == AnsweredSite(entries, j)
                tcs == AllToolCalls(result)
            IN (n # 0 /\ ~UserBetween(entries, CallSites(entries)[n][1], j)) =>
                  /\ tcs[n].id = "t1" /\ tcs[n].name = "read"
                  /\ tcs[n].isError = <<FALSE>>
                  /\ entries[j] = CaseResult => tcs[n].result = <<<<"o", "k">>>>
                  /\ entries[j] = CaseResultOuter => tcs[n].result = <<<<>>>>

C11_Witness ==
    /\ pass = "done" /\ variant = "full"
    /\ entries = <<CaseUser, CaseCall, CaseResultOuter>>
    /\ Len(result) = 1 /\ Len(result[1].toolCalls) = 1
    /\ result[1].toolCalls[1].result = <<<<>>>>
    /\ result[1].toolCalls[1].isError = <<FALSE>>

\* C11 as stated: with the content list on the entry beside message the result is "ok"
C11_ResultFromEntryContent ==
    (pass = "done" /\ variant = "full") =>
        \A j \in DOMAIN entries :
            LET n   == AnsweredSite(entries, j)
                tcs == AllToolCalls(result)
            IN (/\ n # 0 /\ ~UserBetween(entries, CallSites(entries)[n][1], j)
                /\ entries[j] = CaseResultOuter) =>
                  (tcs[n].result = <<<<"o", "k">>>> /\ tcs[n].isError = <<FALSE>>)

(***************************************************************************)
(* C14.  A toolResult entry that arrives after a later user message has    *)
(* closed the turn of its tool call still resolves that call: in the list  *)
(* the full handler's pass returns, the ToolCall of the earlier, already   *)
(* finalized turn carries the text and the isError of the late result.     *)
(***************************************************************************)
C14_LateResultResolves ==
    (pass = "done" /\ variant = "full") =>
        \A j \in DOMAIN entries :
            LET n     == AnsweredSite(entries, j)
                sites == CallSites(entries)
            IN (n # 0 /\ UserBetween(entries, sites[n][1], j)) =>
                  LET k  == TurnOfPosition(entries, sites[n][1])
                      m  == n - Len(AllToolCalls(SubSeq(result, 1, k - 1)))
                      tc == result[k].toolCalls[m]
                  IN /\ k < Len(result)
                     /\ tc.id = sites[n][2]
                     /\ tc.result = <<extractTextFromContent(entries[j].content)>>
                     /\ tc.isError = IF entries[j].isError = <<>> THEN <<FALSE>>
                                     ELSE entries[j].isError

C14_Witness ==
    /\ pass = "done" /\ variant = "full"
    /\ entries = <<UserHi, AsstCall, UserHi, ResultT1>>
    /\ Len(result) = 2
    /\ result[1].toolCalls[1].id = "t1"
    /\ result[1].toolCalls[1].result = <<<<"r">>>>
    /\ result[1].toolCalls[1].isError = <<FALSE>>
    /\ result[2].toolCalls = <<>>

(***************************************************************************)
(* Reading the journal file and the output files for the handler claims.   *)
(***************************************************************************)
\* the values of the journal's parsable lines, in the order of the lines
RECURSIVE ParsedInOrder(_)
ParsedInOrder(jf) ==
    IF jf = <<>> THEN <<>>
    ELSE (IF Head(jf).type \in {"garbage", "blank"} THEN <<>> ELSE <<Head(jf)>>)
         \o ParsedInOrder(Tail(jf))

IsPrefix(a, b) == Len(a) <= Len(b) /\ SubSeq(b, 1, Len(a)) = a

LastBlock == convLog[Len(convLog)]

MarkerLines(sid) ==
    {i \in DOMAIN logFile : /\ logFile[i].schema = "openclaw-session-start-v1"
                            /\ logFile[i].session.sessionId = sid}

(***************************************************************************)
(* C12.  A journal line that is not valid JSON is dropped without failing  *)
(* the read: the entries the full handler reads are exactly the parsed     *)
(* values of the other lines in their order in the file, and the payload   *)
(* it appends has one turn per user-message line, so a journal with one    *)
(* unparsable line between two user-message lines yields 2 turns.          *)
(***************************************************************************)
C12_UnparsableLineDropped ==
    (lastRun.handler = "full" /\ lastRun.handled /\ ~lastRun.missing) =>
        LET es == ParsedInOrder(journalFile) IN
        /\ lastRun.entries = es
        /\ OnlyObjects(es) => ~lastRun.threw
        /\ (OnlyObjects(es) /\ UserCount(es) > 0) =>
              /\ lastRun.appended = 1
              /\ LastBlock.stats.totalEntries = Len(es)
              /\ LastBlock.stats.turns = UserCount(es)
              /\ Len(LastBlock.turns) = UserCount(es)

C12_Witness ==
    /\ lastRun.handler = "full" /\ lastRun.handled
    /\ journalFile = <<UserHi, GarbageLine, UserHi>>
    /\ lastRun.entries = <<UserHi, UserHi>>
    /\ Len(convLog) = 1 /\ Len(LastBlock.turns) = 2

(***************************************************************************)
(* C13.  For the journal [user message "hi", assistant message with the    *)
(* one text block "hello"] the full handler appends a payload with exactly *)
(* one turn: index 0, userMessage "hi", response "hello", thinking null,   *)
(* toolCalls [] and usage null.                                            *)
(***************************************************************************)
C13_HiHello ==
    (/\ lastRun.handler = "full" /\ lastRun.handled /\ ~lastRun.missing
     /\ journalFile = <<CaseUser, CaseAsst>>) =>
        /\ lastRun.appended = 1
        /\ LastBlock.turns =
              <<[index |-> 0, timestamp |-> Null, model |-> Null, stopReason |-> Null,
                 usage |-> <<>>, userMessage |-> <<"h", "i">>, thinking |-> <<>>,
                 toolCalls |-> <<>>, response |-> <<<<"h", "e", "l", "l", "o">>>>]>>

C13_Witness ==
    /\ lastRun.handler = "full" /\ lastRun.appended = 1
    /\ journalFile = <<CaseUser, CaseAsst>>
    /\ Len(convLog) = 1 /\ Len(LastBlock.turns) = 1
    /\ LastBlock.turns[1].userMessage = <<"h", "i">>
    /\ LastBlock.turns[1].thinking = <<>>

(***************************************************************************)
(* C15.  Every run of the full, optimized, incremental or session-start    *)
(* handler is append-only on its output files: what a file held before     *)
(* the run is an exact prefix of what it holds after the run.              *)
(***************************************************************************)
C15_AppendOnly ==
    [][/\ IsPrefix(convLog, convLog')
       /\ IsPrefix(verboseLog, verboseLog')
       /\ IsPrefix(logFile, logFile')]_vars

C15_Witness ==
    /\ runs = 2 /\ lastRun.handler = "optimized" /\ lastRun.appended = 2
    /\ Len(convLog) = 2 /\ Len(verboseLog) = 1
    /\ "totalCost" \in DOMAIN convLog[1].stats
    /\ "totalCost" \notin DOMAIN convLog[2].stats

(***************************************************************************)
(* C16.  When the session journal a run is pointed at is missing or        *)
(* unreadable, the entry reader returns the empty sequence and the run of  *)
(* the full, optimized or incremental handler ends with the output files   *)
(* unchanged and no error raised.                                          *)
(***************************************************************************)
C16_MissingJournal ==
    (lastRun.handler \in {"full", "optimized", "incremental"} /\ lastRun.missing) =>
        /\ lastRun.entries = <<>>
        /\ lastRun.appended = 0
        /\ ~lastRun.threw

C16_Witness ==
    /\ runs = 2 /\ lastRun.handler = "full" /\ lastRun.missing
    /\ journalFile = <<CaseUser, CaseAsst>>
    /\ Len(convLog) = 1 /\ lastRun.appended = 0

(***************************************************************************)
(* C17.  getLastWrittenTurnIndex(sessionId) returns the largest turn.index *)
(* over the output-file lines whose schema is openclaw-turn-v1 and whose   *)
(* session.sessionId equals sessionId, and -1 when there is no such line   *)
(* or no file; lines of other sessions, session-start markers and          *)
(* unparsable lines never change the result.                               *)
(***************************************************************************)
C17_LastWrittenIndex ==
    scanResult # <<>> =>
        LET own == {i \in DOMAIN logFile :
                       /\ logFile[i].schema = "openclaw-turn-v1"
                       /\ logFile[i].session.sessionId = scanId}
        IN /\ own = {} => scanResult[1] = -1
           /\ own # {} =>
                 /\ \E i \in own : scanResult[1] = logFile[i].turn.index
                 /\ \A i \in own : scanResult[1] >= logFile[i].turn.index

C17_Witness ==
    /\ scanId = "s1" /\ scanResult = <<0>>
    /\ logFile = <<TurnLine("s1", 0), TurnLine("s2", 1), MarkerLine("s1")>>

(***************************************************************************)
(* C18.  Noninterference for credentials: for two lifecycle events that    *)
(* differ only in cfg.channels.discord.token and cfg.gateway.auth.token,   *)
(* each handler appends the same content (extractedAt apart) for the same  *)
(* journal.                                                                *)
(***************************************************************************)
C18_CredentialsDoNotInterfere ==
    (outA # <<>> /\ eventA.cfg.modelPrimary = eventB.cfg.modelPrimary) => outA = outB

C18_Witness ==
    /\ outA # <<>> /\ niHandler = "optimized"
    /\ eventA.cfg.discordToken # eventB.cfg.discordToken
    /\ eventA.cfg.gatewayToken # eventB.cfg.gatewayToken
    /\ eventA.cfg.modelPrimary = "m1" /\ eventB.cfg.modelPrimary = "m1"
    /\ Len(outA[1].conv) = 1 /\ Len(outA[1].raw) = 1
    /\ outA = outB

(***************************************************************************)
(* C19.  The optimized extractor hook does not read or log cfg: for two    *)
(* events that differ only inside event.context.cfg, in any field of it,   *)
(* the payload the hook appends is the same (extractedAt apart).           *)
(***************************************************************************)
C19_CfgDoesNotInterfere ==
    (outA # <<>> /\ niHandler = "optimized") => outA = outB

(***************************************************************************)
(* C20.  The session-start marker is appended once per session start:      *)
(* after any sequence of lifecycle events the shared output file holds     *)
(* exactly one openclaw-session-start-v1 line for each session id for      *)
(* which agent:bootstrap has fired, however many times it fired.           *)
(***************************************************************************)
C20_OneMarkerPerSession ==
    \A sid \in started : sid # Null => Cardinality(MarkerLines(sid)) = 1

(***************************************************************************)
(* C21.  Entries that are not structured message entries (a type other     *)
(* than "message", no message object, the session header, a parsed JSON    *)
(* value that is not an object) are ignored with no state change: the      *)
(* pass ends normally and returns the turn list it returns for the journal *)
(* with all such entries deleted.                                          *)
(***************************************************************************)
C21_NonMessageEntriesIgnored ==
    pass \in {"done", "threw"} =>
        /\ pass = "done"
        /\ result = extractTurns(variant, SelectSeq(entries, IsMessageEntry)).turns

(***************************************************************************)
(* C22.  A handler run raises an error only when the append to the output  *)
(* file fails: whatever the journal file holds (nothing, unparsable lines, *)
(* lines that parse to null, tool results without a matching call) and     *)
(* whatever was written before, the run finishes without raising.          *)
(***************************************************************************)
C22_NoRunRaises == ~lastRun.threw

(***************************************************************************)
(* C23.  Each handler acts only on its declared events: a run of the       *)
(* incremental handler appends nothing for an event other than             *)
(* agent:bootstrap and message:sent; a run of the full handler appends     *)
(* nothing for an event other than agent:bootstrap and command:new, nor    *)
(* when context.agentId or context.sessionId is missing, nor when the      *)
(* journal it is pointed at yields zero turns.                             *)
(***************************************************************************)
C23_DeclaredEventsOnly ==
    LET ev      == lastRun.event
        kind    == <<ev.type, ev.action>>
        pointed == IF resolveSessionFile(ev.agentId, ev.sessionId) = JournalPath
                   THEN ParsedInOrder(journalFile) ELSE <<>>
    IN /\ (/\ lastRun.handler = "incremental"
           /\ kind \notin {<<"agent", "bootstrap">>, <<"message", "sent">>}) =>
              lastRun.appended = 0
       /\ (/\ lastRun.handler = "full"
           /\ \/ kind \notin {<<"agent", "bootstrap">>, <<"command", "new">>}
              \/ ev.agentId = Null
              \/ ev.sessionId = Null
              \/ UserCount(pointed) = 0) =>
              lastRun.appended = 0

C23_Witness ==
    /\ runs = 2 /\ lastRun.handler = "full" /\ lastRun.appended = 0
    /\ lastRun.event = [type |-> "message", action |-> "sent",
                        agentId |-> "main", sessionId |-> "s1"]
    /\ journalFile = <<CaseUser, CaseAsst>>
    /\ Len(convLog) = 1

\* the journal without the assistant and toolResult entries that precede its first user entry
RECURSIVE WithoutEarlyReplies(_)
WithoutEarlyReplies(es) ==
    IF es = <<>> \/ IsUserEntry(Head(es)) THEN es
    ELSE (IF IsAssistantEntry(Head(es)) \/ IsResultEntry(Head(es)) THEN <<>> ELSE <<Head(es)>>)
         \o WithoutEarlyReplies(Tail(es))

(***************************************************************************)
(* C24.  Assistant and toolResult entries that come before the first user  *)
(* entry of a pass are ignored: while no user entry has been read there is *)
(* no turn, no open turn and no pending or created tool call, and the      *)
(* turns the pass returns are those it returns for the journal without     *)
(* these entries.                                                          *)
(***************************************************************************)
C24_EarlyRepliesIgnored ==
    /\ (pass = "running" /\ UserCount(entries) = 0) =>
          /\ turns = <<>> /\ current = <<>>
          /\ pendingToolCalls = NoPending /\ calls = <<>>
    /\ pass = "done" => result = extractTurns(variant, WithoutEarlyReplies(entries)).turns

C24_Witness ==
    /\ pass = "done" /\ variant = "full"
    /\ entries = <<AsstCall, ResultT1, UserHi, ResultT1>>
    /\ Len(result) = 1
    /\ result[1].index = 0
    /\ result[1].toolCalls = <<>>
    /\ result[1].thinking = <<>>

(***************************************************************************)
(* C26.  A ToolCall is mutated at most once: once a toolResult entry has   *)
(* set its result and isError no later entry changes the ToolCall (a       *)
(* second toolResult with the same id is dropped), its id, name and input  *)
(* never change, and no step removes a tool call from a turn: closed turns *)
(* keep their toolCalls, the open turn's toolCalls only grow, and the      *)
(* returned turns hold exactly the tool calls their turns held.            *)
(***************************************************************************)
C26_ToolCallSetOnce ==
    [][/\ Len(calls') >= Len(calls)
       /\ \A i \in DOMAIN calls :
             /\ calls'[i].id = calls[i].id
             /\ calls'[i].name = calls[i].name
             /\ calls'[i].input = calls[i].input
             /\ (calls[i].result # <<>> \/ calls[i].isError # <<>>) => calls'[i] = calls[i]
       /\ Len(turns') >= Len(turns)
       /\ \A k \in DOMAIN turns : turns'[k].toolCalls = turns[k].toolCalls
       /\ current # <<>> =>
             IF Len(turns') > Len(turns)
             THEN turns'[Len(turns) + 1].toolCalls = current[1].toolCalls
             ELSE current' # <<>> /\ IsPrefix(current[1].toolCalls, current'[1].toolCalls)
       /\ (pass = "running" /\ pass' = "done") =>
             /\ Len(result') >= Len(turns)
             /\ \A k \in DOMAIN turns :
                   result'[k].toolCalls = Deref(turns[k].toolCalls, calls)]_vars

C26_Witness ==
    /\ pass = "done" /\ variant = "full"
    /\ entries = <<CaseUser, CaseCall, CaseResult, CaseResultOuter>>
    /\ Len(result) = 1 /\ Len(result[1].toolCalls) = 1
    /\ result[1].toolCalls[1].result = <<<<"o", "k">>>>
    /\ result[1].toolCalls[1].isError = <<FALSE>>

(***************************************************************************)
(* C25.  A tool call created from a block without an id is never           *)
(* registered as pending and never resolved: at every point of the pass    *)
(* and in the returned turns its result and isError are null, whatever     *)
(* toolResult entries follow, those carrying no id included.               *)
(***************************************************************************)
C25_NoIdNeverResolved ==
    pass # "threw" =>
        LET sites == CallSites(entries) IN
        /\ Len(calls) = Len(sites)
        /\ \A n \in DOMAIN sites :
              sites[n][2] = Null =>
                 /\ calls[n].id = Null
                 /\ calls[n].result = <<>> /\ calls[n].isError = <<>>
                 /\ \A id \in DOMAIN pendingToolCalls : pendingToolCalls[id] # n
        /\ pass = "done" =>
              \A k \in DOMAIN result : \A m \in DOMAIN result[k].toolCalls :
                  result[k].toolCalls[m].id = Null =>
                     /\ result[k].toolCalls[m].result = <<>>
                     /\ result[k].toolCalls[m].isError = <<>>

C25_Witness ==
    /\ pass = "done" /\ variant = "full"
    /\ entries = <<UserHi, AsstNoId, ResultNoId, ResultT1>>
    /\ Len(result) = 1 /\ Len(result[1].toolCalls) = 1
    /\ result[1].toolCalls[1].id = Null
    /\ result[1].toolCalls[1].name = "read"
    /\ result[1].toolCalls[1].result = <<>>
    /\ result[1].toolCalls[1].isError = <<>>

\* the assistant entries of the k-th turn
AssistantsOf(es, k) == {i \in TurnSpan(es, k) : IsAssistantEntry(es[i])}

LastOf(S) == CHOOSE i \in S : \A j \in S : j <= i

RECURSIVE BlocksFrom(_, _, _)
BlocksFrom(es, k, i) ==
    IF i > Len(es) THEN <<>>
    ELSE (IF i \in AssistantsOf(es, k) /\ es[i].content.kind = "blocks"
          THEN es[i].content.blocks ELSE <<>>)
         \o BlocksFrom(es, k, i + 1)

BlocksOf(es, k) == BlocksFrom(es, k, 1)

IsThought(b) == b.type = "thinking" /\ b.thinking # <<>>

RECURSIVE Thoughts(_)
Thoughts(bs) == IF bs = <<>> THEN <<>> ELSE <<Head(bs).thinking>> \o Thoughts(Tail(bs))

RECURSIVE TextsOf(_)
TextsOf(bs) ==
    IF bs = <<>> THEN <<>>
    ELSE (IF Head(bs).type = "text" THEN Head(bs).text ELSE <<>>) \o TextsOf(Tail(bs))

ParagraphBreak == <<"\n", "\n">>

(***************************************************************************)
(* C28.  A finalized turn's thinking is the non-empty thinking-block texts *)
(* of all assistant messages of the turn, in emission order across the     *)
(* messages, joined with "\n\n"; the thinking the payload emits for a turn *)
(* without a non-empty thinking block is null.                             *)
(***************************************************************************)
C28_ThinkingJoined ==
    pass = "done" =>
        \A k \in DOMAIN result :
            LET ths == Thoughts(SelectSeq(BlocksOf(entries, k), IsThought)) IN
            /\ result[k].thinking = Join(ths, ParagraphBreak)
            /\ PayloadTurn(result[k]).thinking =
                  IF ths = <<>> THEN <<>> ELSE <<Join(ths, ParagraphBreak)>>

C28_Witness ==
    /\ pass = "done" /\ variant = "full"
    /\ entries = <<UserHi, AsstNoId, AsstEmpty, UserHi>>
    /\ Len(result) = 2
    /\ result[1].thinking = <<"a", "\n", "\n", "b">>
    /\ PayloadTurn(result[1]).thinking = <<<<"a", "\n", "\n", "b">>>>
    /\ PayloadTurn(result[2]).thinking = <<>>

(***************************************************************************)
(* C29.  A turn's response is the concatenation, in emission order, of the *)
(* text of every text block of every assistant message between the turn's  *)
(* user entry and the next user entry; no text block reaches another turn. *)
(***************************************************************************)
C29_ResponseConcatenated ==
    pass = "done" =>
        \A k \in DOMAIN result : result[k].response = TextsOf(BlocksOf(entries, k))

C29_Witness ==
    /\ pass = "done" /\ variant = "full"
    /\ entries = <<UserHi, AsstNoId, AsstT1, UserHi>>
    /\ Len(result) = 2
    /\ result[1].response = <<"x", "z">>
    /\ result[2].response = <<>>

(***************************************************************************)
(* C30.  A tool call's input is taken from the block's keys arguments,     *)
(* input, parameters in this order, the first that is not null winning,    *)
(* and is the empty mapping when all three are absent or null; its name is *)
(* the block's name, else its toolName, else "unknown".                    *)
(***************************************************************************)
C30_InputAndNamePrecedence ==
    (pass # "threw" /\ entries # <<>>) =>
        /\ Len(calls) = Len(entries) - 1
        /\ \A n \in DOMAIN calls :
              LET blk == entries[n + 1].content.blocks[1] IN
              /\ calls[n].input =
                    IF blk.arguments # Null THEN blk.arguments
                    ELSE IF blk.input # Null THEN blk.input
                    ELSE IF blk.parameters # Null THEN blk.parameters
                    ELSE "{}"
              /\ calls[n].name =
                    IF blk.name # Null THEN blk.name
                    ELSE IF blk.toolName # Null THEN blk.toolName
                    ELSE "unknown"
              /\ (pass = "done" /\ variant # "incremental") =>
                    /\ result[1].toolCalls[n].input = calls[n].input
                    /\ result[1].toolCalls[n].name = calls[n].name

C30_Witness ==
    /\ pass = "done" /\ variant = "full"
    /\ entries = <<UserHi,
                   AsstMsg(<<[Block("tool_use") EXCEPT !.id = "t1", !.toolName = "exec",
                                                       !.input = "{i:1}",
                                                       !.parameters = "{p:1}"]>>, <<>>)>>
    /\ Len(result) = 1 /\ Len(result[1].toolCalls) = 1
    /\ result[1].toolCalls[1].name = "exec"
    /\ result[1].toolCalls[1].input = "{i:1}"

(***************************************************************************)
(* C31.  In the list the turn builder returns, for every journal, the turn *)
(* at position i has index i: indices are 0-based, contiguous and strictly *)
(* increasing in journal order.                                            *)
(***************************************************************************)
C31_IndexIsPosition ==
    pass = "done" => \A i \in DOMAIN result : result[i].index = i - 1

C31_Witness ==
    /\ pass = "done" /\ variant = "incremental"
    /\ entries = <<UserHi, AsstCall, UserHi, UserHi>>
    /\ Len(result) = 2
    /\ result[1].index = 0 /\ result[2].index = 1

\* an openclaw-turn-v1 line of the session of the journal file s1.jsonl
IsJournalSessionLine(line) == IsTurnLine(line) /\ line.session.sessionId = JournalPath.name

(***************************************************************************)
(* C32.  After any sequence of sequential runs of the incremental handler  *)
(* against the growing journal, the turn.index values of the               *)
(* openclaw-turn-v1 lines of the journal's session, read in file order,    *)
(* are exactly 0, 1, ..., k: no gap and no repeat.  Every run that writes  *)
(* a line of this session has scanned the output file for this session.    *)
(***************************************************************************)
C32_IndicesContiguous ==
    LET own == SelectSeq(logFile, IsJournalSessionLine)
    IN \A i \in DOMAIN own : own[i].turn.index = i - 1

C32_Witness ==
    /\ journalFile = <<UserHi, UserHi, UserHi>>
    /\ Len(SelectSeq(logFile, IsJournalSessionLine)) = 2
    /\ Len(logFile) = 2
    /\ lastAppended = 1
    /\ IsMessageSent(lastEvent)

\* a turn without its toolCalls
TurnCore(t) ==
    [index |-> t.index, timestamp |-> t.timestamp, userMessage |-> t.userMessage,
     thinking |-> t.thinking, response |-> t.response, model |-> t.model,
     stopReason |-> t.stopReason, usage |-> t.usage]

(***************************************************************************)
(* C33.  Turn indices are stable under journal growth: for a journal J and *)
(* a journal J.K obtained by appending entries K, every turn the           *)
(* incremental builder returns for J is returned for J.K at the same       *)
(* position with the same index, timestamp, userMessage, thinking,         *)
(* response, model, stopReason and usage.  Here J.K is the journal of the  *)
(* pass, J each of its prefixes, and a pass that throws returns no turn.   *)
(***************************************************************************)
C33_StableUnderGrowth ==
    (variant = "incremental" /\ pass \in {"done", "threw"}) =>
        \A p \in 0..Len(entries) :
            LET a == extractTurns("incremental", SubSeq(entries, 1, p)).turns IN
            /\ Len(a) <= Len(result)
            /\ \A k \in DOMAIN a : TurnCore(a[k]) = TurnCore(result[k])

(***************************************************************************)
(* C34.  A written turn line never becomes stale: for an append-only       *)
(* journal, the turn object written to the output file for turn i equals   *)
(* the turn object, tool-call results included, that a later run of the    *)
(* incremental handler computes for turn i from the journal as it has      *)
(* grown.                                                                  *)
(***************************************************************************)
C34_WrittenLineNeverStale ==
    LET ts == extractTurns("incremental", readSessionEntries(JournalPath, journalFile)).turns
    IN \A i \in DOMAIN logFile :
          IsJournalSessionLine(logFile[i]) =>
             LET k == logFile[i].turn.index + 1 IN
             /\ k \in DOMAIN ts
             /\ logFile[i].turn = buildTurnPayload(logFile[i].session, ts[k]).turn

(***************************************************************************)
(* C35.  In every run of the incremental handler, for agent:bootstrap and  *)
(* for message:sent, with or without event.context.sessionId, the session  *)
(* id given to the dedup scan equals the session.sessionId written on      *)
(* every line the run appends.                                             *)
(***************************************************************************)
C35_ScanIdIsWrittenId ==
    (lastEvent # NoEvent /\ lastAppended > 0) =>
        LET path    == SessionFileOf(lastEvent, journalFile)
            es      == readSessionEntries(path, journalFile)
            scanned == ScanSessionId(lastEvent, path, es)
        IN \A i \in (Len(logFile) - lastAppended + 1)..Len(logFile) :
              logFile[i].session.sessionId = scanned

(***************************************************************************)
(* C36.  Within one event loop, where an invocation of the incremental     *)
(* handler is suspended only at its awaited file reads and its dedup scan  *)
(* and all of its appends run without yielding, every interleaving of two  *)
(* invocations for the same session on an append-only journal writes each  *)
(* (session.sessionId, turn.index) pair at most once.                      *)
(***************************************************************************)
C36_PairWrittenOnce ==
    \A i \in DOMAIN logFile : \A j \in DOMAIN logFile :
        (i < j /\ IsTurnLine(logFile[i]) /\ IsTurnLine(logFile[j])) =>
            \/ logFile[i].session.sessionId # logFile[j].session.sessionId
            \/ logFile[i].turn.index # logFile[j].turn.index

\* invocation 2 started before the journal grew and is still suspended at its journal
\* read; invocation 1 has read the grown journal and written turns 0 and 1 meanwhile
C36_Witness ==
    /\ inv[2].pc = "read" /\ inv[1].pc = "idle"
    /\ journalFile = <<UserHi, UserHi, UserHi>>
    /\ Len(logFile) = 2
    /\ logFile[1].turn.index = 0 /\ logFile[2].turn.index = 1
    /\ logFile[1].session.sessionId = "s1" /\ logFile[2].session.sessionId = "s1"

\* a toolResult entry with this id lies at a position in lo..hi
ResultWithin(es, id, lo, hi) ==
    \E j \in lo..hi : j \in DOMAIN es /\ IsResultEntry(es[j]) /\ ResultId(es[j]) = id

\* a tool-call block with this id lies at a position in lo..hi
CallWithin(es, id, lo, hi) ==
    \E n \in DOMAIN CallSites(es) :
        CallSites(es)[n][1] \in lo..hi /\ CallSites(es)[n][2] = id

(***************************************************************************)
(* C37.  When two toolCall blocks of one pass carry the same non-null id   *)
(* and no toolResult with that id arrives between them, the earlier call   *)
(* keeps result null and isError null to the end of the pass, and the next *)
(* toolResult with that id resolves the later-created call (the later of   *)
(* the two: no further block with the id comes before that result).        *)
(***************************************************************************)
C37_LaterCallResolved ==
    pass # "threw" =>
        LET sites == CallSites(entries) IN
        \A n \in DOMAIN sites : \A m \in DOMAIN sites :
            (/\ n < m /\ Len(calls) >= m
             /\ sites[n][2] # Null /\ sites[n][2] # "" /\ sites[n][2] = sites[m][2]
             /\ ~ResultWithin(entries, sites[n][2], sites[n][1] + 1, sites[m][1] - 1)) =>
                /\ calls[n].result = <<>> /\ calls[n].isError = <<>>
                /\ \A j \in DOMAIN entries :
                      (/\ j > sites[m][1]
                       /\ IsResultEntry(entries[j]) /\ ResultId(entries[j]) = sites[m][2]
                       /\ ~ResultWithin(entries, sites[m][2], sites[m][1] + 1, j - 1)
                       /\ ~CallWithin(entries, sites[m][2], sites[m][1] + 1, j - 1)) =>
                          /\ calls[m].result = <<extractTextFromContent(entries[j].content)>>
                          /\ calls[m].isError = IF entries[j].isError = <<>> THEN <<FALSE>>
                                                ELSE entries[j].isError
                /\ pass = "done" =>
                      \A k \in DOMAIN result : \A i \in DOMAIN result[k].toolCalls :
                          Len(AllToolCalls(SubSeq(result, 1, k - 1))) + i = n =>
                              /\ result[k].toolCalls[i].result = <<>>
                              /\ result[k].toolCalls[i].isError = <<>>

C37_Witness ==
    /\ pass = "done" /\ variant = "full"
    /\ entries = <<CaseUser, CaseCall, CaseCall, CaseResult>>
    /\ Len(result) = 1 /\ Len(result[1].toolCalls) = 2
    /\ result[1].toolCalls[1].result = <<>>
    /\ result[1].toolCalls[1].isError = <<>>
    /\ result[1].toolCalls[2].result = <<<<"o", "k">>>>
    /\ result[1].toolCalls[2].isError = <<FALSE>>

\* how many times the tool call at heap position idx occurs in the toolCalls lists of the
\* closed turns and of the open turn
RECURSIVE Occurrences(_, _)
Occurrences(idxs, idx) ==
    IF idxs = <<>> THEN 0
    ELSE (IF Head(idxs) = idx THEN 1 ELSE 0) + Occurrences(Tail(idxs), idx)

HoldersOf(idx) ==
    Cardinality({k \in DOMAIN turns : Occurrences(turns[k].toolCalls, idx) > 0})
    + (IF current # <<>> /\ Occurrences(current[1].toolCalls, idx) > 0 THEN 1 ELSE 0)

(***************************************************************************)
(* C38.  At every step of a pass, every entry of the pending-by-id table   *)
(* maps a non-null id to a ToolCall that has that id, is still unresolved  *)
(* (result null and isError null) and is an element of the toolCalls list  *)
(* of exactly one turn; a resolved ToolCall is never in the table.         *)
(***************************************************************************)
C38_PendingTable ==
    /\ \A id \in DOMAIN pendingToolCalls :
          LET idx == pendingToolCalls[id] IN
          /\ id # Null /\ id # ""
          /\ idx \in DOMAIN calls
          /\ calls[idx].id = id
          /\ calls[idx].result = <<>> /\ calls[idx].isError = <<>>
          /\ HoldersOf(idx) = 1
          /\ \A k \in DOMAIN turns : Occurrences(turns[k].toolCalls, idx) <= 1
          /\ current # <<>> => Occurrences(current[1].toolCalls, idx) <= 1
    /\ \A idx \in DOMAIN calls :
          (calls[idx].result # <<>> \/ calls[idx].isError # <<>>) =>
              \A id \in DOMAIN pendingToolCalls : pendingToolCalls[id] # idx

C38_Witness ==
    /\ pass = "running"
    /\ entries = <<UserHi, AsstNoId, AsstT1, UserHi>>
    /\ DOMAIN pendingToolCalls = {"t1"}
    /\ pendingToolCalls["t1"] = 2
    /\ calls[1].id = Null /\ calls[2].id = "t1"
    /\ Len(turns) = 1 /\ turns[1].toolCalls = <<1, 2>>
    /\ current # <<>> /\ current[1].toolCalls = <<>>

JournalEntries == SelectSeq(journalFile, Parses)

\* the last user message of the journal has an assistant reply after it
LastUserAnswered(es) ==
    /\ UserCount(es) > 0
    /\ \E i \in DOMAIN es :
          i > UserPosition(es, UserCount(es)) /\ IsAssistantEntry(es[i])

TurnLines == {i \in DOMAIN logFile : IsTurnLine(logFile[i])}

(***************************************************************************)
(* C1.  Running the incremental handler twice in succession with the same  *)
(* event against an unchanged journal appends no line on the second run.   *)
(***************************************************************************)
C1_SecondRunAppendsNothing == repeated => lastAppended = 0

(***************************************************************************)
(* C2.  After any sequence of sequential runs against one growing journal, *)
(* whatever events triggered them, no turn of the journal is described by  *)
(* more than one openclaw-turn-v1 line of the output file.                 *)
(***************************************************************************)
C2_EachTurnWrittenOnce ==
    \A i, j \in TurnLines : logFile[i].turn.index = logFile[j].turn.index => i = j

(***************************************************************************)
(* C3.  After a run triggered by message:sent on a journal whose last user *)
(* message has received an assistant reply, the output file holds an       *)
(* openclaw-turn-v1 line for every turn of the journal, the latest turn    *)
(* included.                                                               *)
(***************************************************************************)
C3_LatestTurnWritten ==
    (IsMessageSent(lastEvent) /\ LastUserAnswered(JournalEntries)) =>
        \A k \in 0..(UserCount(JournalEntries) - 1) :
            \E i \in TurnLines : logFile[i].turn.index = k

(***************************************************************************)
(* C4.  When two invocations for the same session overlap, their           *)
(* read-journal, dedup-scan and append steps interleaving and every append *)
(* atomic, the output file never holds two lines with the same             *)
(* (session.sessionId, turn.index).                                        *)
(***************************************************************************)
C4_NoDuplicatePair ==
    \A i, j \in TurnLines :
        (/\ logFile[i].session.sessionId = logFile[j].session.sessionId
         /\ logFile[i].turn.index = logFile[j].turn.index) => i = j

====
